---- MODULE Spec2Model ----
(***************************************************************************)
(* Pokemon Battle Arena: the battle phase (Phase3.update, stepbattle,      *)
(* stepbattle_simulation), the creatures' mutators (models.py), the fuzzy  *)
(* legal-action generator and the alpha-beta search of                     *)
(* team_rocket_ai_agent.py.                                                *)
(*                                                                         *)
(* Python objects live in `heap`, a map from object identities to their    *)
(* fields, so that a clone is a new identity and an alias is the same      *)
(* identity.  Floating-point quantities are exact rationals: a random      *)
(* factor is a percentage, a multiplier is a number of tenths, a fuzzy     *)
(* membership is a fraction [n, d].                                        *)
(***************************************************************************)
EXTENDS Integers, Sequences, FiniteSets, TLC

VARIABLES
    heap,          \* the objects, by identity (Pokemon, elixir dict, BattleState)
    last_action,   \* Phase3.last_action
    op,            \* the operation that produced this state
    prev,          \* heap before that operation
    args,          \* the inputs of that operation
    ret,           \* what that operation returned or observed
    turn,          \* turns played by Phase3.update since the state was set up
    phase3,        \* Phase3.phase_start_time and Phase3.nextdecisiontime
    env            \* what time.time() returns and Game.waiting_for_audio

vars == <<heap, last_action, op, prev, args, ret, turn, phase3, env>>

--------------------------------------------------------------------------
(* Bounds of the model *)

\* plies searched by a probe of decide_action range over 0..MaxDepth
MaxDepth == 3
\* ticks of Phase3.update explored from a battle state
MaxTurns == 1
\* the amounts passed to takedamage and heal range over 0..MaxAmount
MaxAmount == 40

--------------------------------------------------------------------------
(* config.py *)

TYPES == {"Fire", "Electric", "Water"}
TYPEADV == {<<"Fire", "Electric">>, <<"Electric", "Water">>, <<"Water", "Fire">>}
\* the value of every TYPEADV entry, in tenths
TYPEADVMULT == 13
\* in tenths
FIELDBOOST == 12
ASHTEAMSPECIES == [i \in 0..2 |-> <<"Electric", "Fire", "Water">>[i + 1]]
ROCKETTEAMSPECIES == [i \in 0..2 |-> <<"Electric", "Fire", "Water">>[i + 1]]
\* heal amount of each tier (the first component of ELIXIRS[tier])
ELIXIRS == [Small |-> 25, Medium |-> 50, Large |-> 80]

--------------------------------------------------------------------------
(* models.py *)

DEFAULTMAXHP == 100
DEFAULTATK == 22
DEFAULTDFN == 10

Max(a, b) == IF a >= b THEN a ELSE b
Min(a, b) == IF a <= b THEN a ELSE b

\* Pokemon(name, ptype) with the dataclass defaults
Pokemon(ptype, hp) ==
    [ptype |-> ptype, maxhp |-> DEFAULTMAXHP, hp |-> hp, atk |-> DEFAULTATK,
     dfn |-> DEFAULTDFN, alive |-> hp > 0]

takedamage(p, dmg) ==
    IF ~p.alive THEN p
    ELSE LET h == Max(0, p.hp - dmg)
         IN  [p EXCEPT !.hp = h, !.alive = IF h = 0 THEN FALSE ELSE @]

\* heal without the guard on alive
heal_unguarded(p, amt) == [p EXCEPT !.hp = Min(p.maxhp, p.hp + amt)]

heal(p, amt) ==
    IF ~p.alive THEN p
    ELSE [p EXCEPT !.hp = Min(p.maxhp, p.hp + amt)]

\* BattleAction(kind, arg): arg is None, an int or a str
NoArg == [ty |-> "none", i |-> 0, s |-> ""]
IntArg(n) == [ty |-> "int", i |-> n, s |-> ""]
StrArg(t) == [ty |-> "str", i |-> 0, s |-> t]
BattleAction(kind, arg) == [kind |-> kind, arg |-> arg]
ATTACK == BattleAction("ATTACK", NoArg)
DEFEND == BattleAction("DEFEND", NoArg)
SWAP(n) == BattleAction("SWAP", IntArg(n))
HEAL(t) == BattleAction("HEAL", StrArg(t))

\* Agent: the team is a list of Pokemon objects, elixirs a dict object
Agent(name, team, elixirs) == [name |-> name, team |-> team, elixirs |-> elixirs]
LenTeam(agent) == Cardinality(DOMAIN agent.team)

\* dict.get(key, 0)
DictGet(d, key) == IF key \in DOMAIN d THEN d[key] ELSE 0

--------------------------------------------------------------------------
(* utils.py: FuzzyLogic.  A float is the exact fraction n/d, d > 0, in lowest *)
(* terms.                                                                   *)

RECURSIVE GCD(_, _)
GCD(x, y) == IF y = 0 THEN x ELSE GCD(y, x % y)
Abs(x) == IF x < 0 THEN -x ELSE x
Fr(n, d) == LET g == GCD(Abs(n), d) IN [n |-> n \div g, d |-> d \div g]
FrLe(x, y) == x.n * y.d <= y.n * x.d
FrLt(x, y) == x.n * y.d < y.n * x.d
FrMin(x, y) == IF FrLe(x, y) THEN x ELSE y
FrMax(x, y) == IF FrLe(y, x) THEN x ELSE y
FrMul(x, y) == Fr(x.n * y.n, x.d * y.d)
FrSub(x, y) == Fr(x.n * y.d - y.n * x.d, x.d * y.d)
FrInt(k) == Fr(k, 1)

membership_low(value, min_val, max_val) ==
    IF FrLe(value, FrInt(min_val)) THEN FrInt(1)
    ELSE IF FrLe(FrInt(max_val), value) THEN FrInt(0)
    ELSE FrMul(FrSub(FrInt(max_val), value), Fr(1, max_val - min_val))

membership_medium(value, low, mid, high) ==
    IF FrLe(value, FrInt(low)) \/ FrLe(FrInt(high), value) THEN FrInt(0)
    ELSE IF FrLe(value, FrInt(mid)) /\ FrLe(FrInt(mid), value) THEN FrInt(1)
    ELSE IF FrLt(value, FrInt(mid))
         THEN FrMul(FrSub(value, FrInt(low)), Fr(1, mid - low))
         ELSE FrMul(FrSub(FrInt(high), value), Fr(1, high - mid))

membership_high(value, min_val, max_val) ==
    IF FrLe(FrInt(max_val), value) THEN FrInt(1)
    ELSE IF FrLe(value, FrInt(min_val)) THEN FrInt(0)
    ELSE FrMul(FrSub(value, FrInt(min_val)), Fr(1, max_val - min_val))

should_heal(pokemon_hp_percent, has_elixir, enemy_hp_percent) ==
    IF ~has_elixir THEN FrInt(0)
    ELSE LET hp_low == membership_low(pokemon_hp_percent, 20, 50)
             hp_medium == membership_medium(pokemon_hp_percent, 30, 50, 70)
             hp_high == membership_high(pokemon_hp_percent, 60, 80)
             enemy_low == membership_low(enemy_hp_percent, 20, 50)
             enemy_high == membership_high(enemy_hp_percent, 50, 80)
             rule1 == FrMul(FrMin(hp_low, FrSub(FrInt(1), enemy_low)), Fr(9, 10))
             rule2 == FrMul(FrMin(hp_medium, enemy_high), Fr(6, 10))
             rule3 == FrMul(hp_high, FrInt(0))
             rule4 == FrMul(FrMin(hp_low, enemy_low), Fr(4, 10))
         IN  FrMax(FrMax(rule1, rule2), FrMax(rule3, rule4))

\* swap rules that look at the hp only, never at the active creature's type
should_swap_hponly(active_type, enemy_type, bench_has_advantage, active_hp_percent) ==
    IF ~bench_has_advantage THEN FrInt(0)
    ELSE FrMax(FrMax(FrMul(membership_low(active_hp_percent, 10, 30), Fr(95, 100)),
                     FrMul(membership_low(active_hp_percent, 20, 50), Fr(75, 100))),
               Fr(5, 10))

should_swap(active_type, enemy_type, bench_has_advantage, active_hp_percent) ==
    IF ~bench_has_advantage THEN FrInt(0)
    ELSE LET has_disadvantage ==
                 IF <<enemy_type, active_type>> \in TYPEADV THEN FrInt(1) ELSE FrInt(0)
             hp_critical == membership_low(active_hp_percent, 10, 30)
             hp_low == membership_low(active_hp_percent, 20, 50)
             hp_high == membership_high(active_hp_percent, 50, 80)
             rule1 == FrMul(FrMin(hp_critical, has_disadvantage), Fr(95, 100))
             rule2 == FrMul(FrMin(hp_low, has_disadvantage), Fr(75, 100))
             rule3 == FrMul(has_disadvantage, Fr(5, 10))
             rule4 == FrMul(FrMin(hp_high, FrSub(FrInt(1), has_disadvantage)), FrInt(0))
         IN  FrMax(FrMax(rule1, rule2), FrMax(rule3, rule4))

--------------------------------------------------------------------------
(* team_rocket_ai_agent.py: evalstate, legalactions *)

RECURSIVE SumOver(_, _, _)
\* sum(f(p) for p in team), the team given by its object identities
SumOver(h, team, n) ==
    IF n = 0 THEN 0 ELSE SumOver(h, team, n - 1) + h[team[n - 1]].hp

hpsum(h, agent) == SumOver(h, agent.team, LenTeam(agent))
alivecount(h, agent) == Cardinality({i \in DOMAIN agent.team : h[agent.team[i]].alive})
anyalive(h, agent) == \E i \in DOMAIN agent.team : h[agent.team[i]].alive

\* the hp difference alone
evalstate_hponly(h, ash, rocket, bs) == hpsum(h, ash) - hpsum(h, rocket)

evalstate(h, ash, rocket, bs) ==
    LET ashhp == hpsum(h, ash)
        rockethp == hpsum(h, rocket)
        ashalive == alivecount(h, ash)
        rocketalive == alivecount(h, rocket)
    IN  (ashhp - rockethp) + (ashalive - rocketalive) * 30

\* the first index the loop of legalactions stops at, or -1 (best_swap_idx None)
\* a bench scan that forgets to test that the creature is alive
bestswapidx_fainted(h, agent, activeidx, opppokemon) ==
    LET cand == {i \in DOMAIN agent.team :
                    /\ i # activeidx
                    /\ <<h[agent.team[i]].ptype, opppokemon.ptype>> \in TYPEADV}
    IN  IF cand = {} THEN -1 ELSE CHOOSE i \in cand : \A j \in cand : i <= j

bestswapidx(h, agent, activeidx, opppokemon) ==
    LET cand == {i \in DOMAIN agent.team :
                    /\ i # activeidx
                    /\ h[agent.team[i]].alive
                    /\ <<h[agent.team[i]].ptype, opppokemon.ptype>> \in TYPEADV}
    IN  IF cand = {} THEN -1 ELSE CHOOSE i \in cand : \A j \in cand : i <= j

\* a generator that proposes a swap to every living bench creature
legalactions_everybench(h, agent, activeidx, opppokemon) ==
    <<ATTACK, DEFEND>>
    \o SelectSeq([i \in 1..LenTeam(agent) |-> SWAP(i - 1)],
                 LAMBDA x : x.arg.i # activeidx /\ h[agent.team[x.arg.i]].alive)

\* a generator that heals with the smallest owned tier
legalactions_smallest(h, agent, activeidx, opppokemon) ==
    LET activepoke == h[agent.team[activeidx]]
        best_swap_idx == bestswapidx(h, agent, activeidx, opppokemon)
        hp_percent == Fr(activepoke.hp * 100, activepoke.maxhp)
        swaps == IF /\ best_swap_idx # -1
                    /\ FrLt(Fr(5, 10), should_swap(activepoke.ptype, opppokemon.ptype,
                                                   TRUE, hp_percent))
                 THEN <<SWAP(best_swap_idx)>> ELSE <<>>
        elixirs == h[agent.elixirs]
        avail == {k \in DOMAIN elixirs : elixirs[k] > 0}
        heals == IF /\ avail # {}
                    /\ activepoke.hp < activepoke.maxhp
                    /\ FrLt(Fr(4, 10),
                            should_heal(hp_percent, TRUE,
                                        Fr(opppokemon.hp * 100, opppokemon.maxhp)))
                 THEN <<HEAL(CHOOSE k \in avail : \A j \in avail : ELIXIRS[k] <= ELIXIRS[j])>>
                 ELSE <<>>
    IN  <<ATTACK, DEFEND>> \o swaps \o heals

legalactions(h, agent, activeidx, opppokemon) ==
    LET activepoke == h[agent.team[activeidx]]
        best_swap_idx == bestswapidx(h, agent, activeidx, opppokemon)
        bench_has_advantage == best_swap_idx # -1
        hp_percent == Fr(activepoke.hp * 100, activepoke.maxhp)
        swap_strength ==
            should_swap(activepoke.ptype, opppokemon.ptype, TRUE, hp_percent)
        swaps == IF bench_has_advantage /\ FrLt(Fr(5, 10), swap_strength)
                 THEN <<SWAP(best_swap_idx)>> ELSE <<>>
        elixirs == h[agent.elixirs]
        avail == {k \in DOMAIN elixirs : elixirs[k] > 0}
        has_elixir == avail # {}
        enemy_hp_percent == Fr(opppokemon.hp * 100, opppokemon.maxhp)
        heal_strength == should_heal(hp_percent, TRUE, enemy_hp_percent)
        best_elixir == CHOOSE k \in avail : \A j \in avail : ELIXIRS[k] >= ELIXIRS[j]
        heals == IF /\ has_elixir
                    /\ activepoke.hp < activepoke.maxhp
                    /\ FrLt(Fr(4, 10), heal_strength)
                 THEN <<HEAL(best_elixir)>> ELSE <<>>
    IN  <<ATTACK, DEFEND>> \o swaps \o heals

--------------------------------------------------------------------------
(* phase_3.py: computedamage, stepbattle, stepbattle_simulation *)

\* Python's round() of the exact value n/d (d > 0, n >= 0): ties go to even
RoundHalfEven(n, d) ==
    LET q == n \div d
        r == n % d
    IN  IF 2 * r < d THEN q
        ELSE IF 2 * r > d THEN q + 1
        ELSE IF q % 2 = 0 THEN q ELSE q + 1

\* a damage without the floor of 5 under the base
computedamage_nofloor(attacker, defender, fieldtype, rnd) ==
    LET base == attacker.atk - (defender.dfn \div 2)
        m1 == IF <<attacker.ptype, defender.ptype>> \in TYPEADV THEN TYPEADVMULT ELSE 10
        m2 == IF attacker.ptype = fieldtype THEN FIELDBOOST ELSE 10
    IN  RoundHalfEven(base * m1 * m2 * rnd, 10 * 10 * 100)

\* a damage whose two bonuses add up (1 + 0.3 + 0.2) instead of multiplying
computedamage_additive(attacker, defender, fieldtype, rnd) ==
    LET base == Max(5, attacker.atk - (defender.dfn \div 2))
        b1 == IF <<attacker.ptype, defender.ptype>> \in TYPEADV THEN TYPEADVMULT - 10 ELSE 0
        b2 == IF attacker.ptype = fieldtype THEN FIELDBOOST - 10 ELSE 0
    IN  RoundHalfEven(base * (10 + b1 + b2) * rnd, 10 * 100)

\* rnd is the percentage drawn by random.uniform(0.8, 1.2)
computedamage(attacker, defender, fieldtype, rnd) ==
    LET base == Max(5, attacker.atk - (defender.dfn \div 2))
        m1 == IF <<attacker.ptype, defender.ptype>> \in TYPEADV THEN TYPEADVMULT ELSE 10
        m2 == IF attacker.ptype = fieldtype THEN FIELDBOOST ELSE 10
    IN  RoundHalfEven(base * m1 * m2 * rnd, 10 * 10 * 100)

\* half of the damage rounded up
halved_up(dmg) == (dmg + 1) \div 2

\* int(dmg * 0.5)
halved(dmg) == dmg \div 2

\* the last living creature in roster order
firstalive_last(h, agent, idx) ==
    LET living == {i \in DOMAIN agent.team : h[agent.team[i]].alive}
    IN  IF living = {} THEN idx ELSE CHOOSE i \in living : \A j \in living : i >= j

\* the first living creature in roster order, or idx when none lives
firstalive(h, agent, idx) ==
    LET living == {i \in DOMAIN agent.team : h[agent.team[i]].alive}
    IN  IF living = {} THEN idx ELSE CHOOSE i \in living : \A j \in living : i <= j

\* stepbattle_simulation.apply: the heap and the active index after the action
sim_apply(h, agent, act, idx) ==
    IF act.kind = "SWAP" /\ act.arg.ty = "int"
    THEN IF 0 <= act.arg.i /\ act.arg.i < LenTeam(agent)
            /\ h[agent.team[act.arg.i]].alive
         THEN [heap |-> h, idx |-> act.arg.i]
         ELSE [heap |-> h, idx |-> idx]
    ELSE IF act.kind = "HEAL" /\ act.arg.ty = "str"
            /\ DictGet(h[agent.elixirs], act.arg.s) > 0
    THEN [heap |-> [h EXCEPT ![agent.team[idx]] = heal(@, ELIXIRS[act.arg.s]),
                             ![agent.elixirs][act.arg.s] = @ - 1],
          idx |-> idx]
    ELSE [heap |-> h, idx |-> idx]

\* the damage dealt to a creature whose side defends or not
dealt(dmg, defending) == IF defending THEN halved(dmg) ELSE dmg

\* an attack of the simulation that forgets the target's side defends
sim_attack_undefended(h, act, att, tgt, fieldtype, defending, rnd) ==
    IF act.kind = "ATTACK" /\ h[att].alive /\ h[tgt].alive
    THEN [h EXCEPT ![tgt] = takedamage(@, computedamage(h[att], h[tgt], fieldtype, rnd))]
    ELSE h

\* one attack of the simulation: att and tgt are the two active creatures
sim_attack(h, act, att, tgt, fieldtype, defending, rnd) ==
    IF act.kind = "ATTACK" /\ h[att].alive /\ h[tgt].alive
    THEN [h EXCEPT ![tgt] = takedamage(@, dealt(computedamage(h[att], h[tgt], fieldtype, rnd),
                                                 defending))]
    ELSE h

\* the index a side ends the turn with
advance(h, agent, idx) ==
    IF ~h[agent.team[idx]].alive THEN firstalive(h, agent, idx) ELSE idx

\* fa, fr: the random percentages of Ash's and of Team Rocket's attack
stepbattle_simulation(h, ash, rocket, bs, ashact, rocketact, fa, fr) ==
    LET indices(h4, ashidx, rocidx) ==
            [h4 EXCEPT ![bs].ashactive = advance(h4, ash, ashidx),
                       ![bs].rocketactive = advance(h4, rocket, rocidx)]
        rocketattack(h3, ashidx, rocidx) ==
            indices(sim_attack(h3, rocketact, rocket.team[rocidx], ash.team[ashidx],
                               h3[bs].fieldtype, ashact.kind = "DEFEND", fr),
                    ashidx, rocidx)
        ashattack(h2, ashidx, rocidx) ==
            rocketattack(sim_attack(h2, ashact, ash.team[ashidx], rocket.team[rocidx],
                                    h2[bs].fieldtype, rocketact.kind = "DEFEND", fa),
                         ashidx, rocidx)
        applied(a1, a2) == ashattack(a2.heap, a1.idx, a2.idx)
        applyrocket(a1) == applied(a1, sim_apply(a1.heap, rocket, rocketact, h[bs].rocketactive))
    IN  applyrocket(sim_apply(h, ash, ashact, h[bs].ashactive))

\* an apply whose swap forgets to test that the target is alive
apply_swapfainted(h, la, agent, act, idx) ==
    IF act.kind = "SWAP" /\ act.arg.ty = "int"
    THEN IF 0 <= act.arg.i /\ act.arg.i < LenTeam(agent)
         THEN [heap |-> h, idx |-> act.arg.i,
               last_action |-> [la EXCEPT ![agent.name] = "SWAP"]]
         ELSE [heap |-> h, idx |-> idx, last_action |-> la]
    ELSE IF act.kind = "HEAL" /\ act.arg.ty = "str"
            /\ DictGet(h[agent.elixirs], act.arg.s) > 0
    THEN [heap |-> [h EXCEPT ![agent.team[idx]] = heal(@, ELIXIRS[act.arg.s]),
                             ![agent.elixirs][act.arg.s] = @ - 1],
          idx |-> idx,
          last_action |-> [la EXCEPT ![agent.name] = "HEAL"]]
    ELSE [heap |-> h, idx |-> idx, last_action |-> la]

\* an apply that keeps the potion when the heal restores no hp
apply_thrifty(h, la, agent, act, idx) ==
    IF act.kind = "SWAP" /\ act.arg.ty = "int"
    THEN IF 0 <= act.arg.i /\ act.arg.i < LenTeam(agent)
            /\ h[agent.team[act.arg.i]].alive
         THEN [heap |-> h, idx |-> act.arg.i,
               last_action |-> [la EXCEPT ![agent.name] = "SWAP"]]
         ELSE [heap |-> h, idx |-> idx, last_action |-> la]
    ELSE IF act.kind = "HEAL" /\ act.arg.ty = "str"
            /\ DictGet(h[agent.elixirs], act.arg.s) > 0
    THEN [heap |-> [h EXCEPT ![agent.team[idx]] = heal(@, ELIXIRS[act.arg.s]),
                             ![agent.elixirs][act.arg.s] =
                                 IF heal(h[agent.team[idx]], ELIXIRS[act.arg.s]) = h[agent.team[idx]]
                                 THEN @ ELSE @ - 1],
          idx |-> idx,
          last_action |-> [la EXCEPT ![agent.name] = "HEAL"]]
    ELSE [heap |-> h, idx |-> idx, last_action |-> la]

\* stepbattle.apply (game is the running Game): also records the action shown
apply(h, la, agent, act, idx) ==
    IF act.kind = "SWAP" /\ act.arg.ty = "int"
    THEN IF 0 <= act.arg.i /\ act.arg.i < LenTeam(agent)
            /\ h[agent.team[act.arg.i]].alive
         THEN [heap |-> h, idx |-> act.arg.i,
               last_action |-> [la EXCEPT ![agent.name] = "SWAP"]]
         ELSE [heap |-> h, idx |-> idx, last_action |-> la]
    ELSE IF act.kind = "HEAL" /\ act.arg.ty = "str"
            /\ DictGet(h[agent.elixirs], act.arg.s) > 0
    THEN [heap |-> [h EXCEPT ![agent.team[idx]] = heal(@, ELIXIRS[act.arg.s]),
                             ![agent.elixirs][act.arg.s] = @ - 1],
          idx |-> idx,
          last_action |-> [la EXCEPT ![agent.name] = "HEAL"]]
    ELSE [heap |-> h, idx |-> idx, last_action |-> la]

\* the DEFEND branches of stepbattle
defending(la, ashact, rocketact) ==
    [la EXCEPT !["Ash"] = IF ashact.kind = "DEFEND" THEN "DEFEND" ELSE @,
               !["Team Rocket"] = IF rocketact.kind = "DEFEND" THEN "DEFEND" ELSE @]

\* an attack that a creature fainted earlier in the turn still makes
attack_posthumous(st, name, act, att, tgt, fieldtype, defends, rnd) ==
    IF act.kind = "ATTACK" /\ st.heap[tgt].alive
    THEN [heap |-> [st.heap EXCEPT ![tgt] =
                        takedamage(@, dealt(computedamage(st.heap[att], st.heap[tgt],
                                                          fieldtype, rnd), defends))],
          last_action |-> [st.last_action EXCEPT ![name] = "ATTACK"]]
    ELSE st

\* one attack of the live turn; st holds the heap and Phase3.last_action
attack(st, name, act, att, tgt, fieldtype, defends, rnd) ==
    IF act.kind = "ATTACK" /\ st.heap[att].alive /\ st.heap[tgt].alive
    THEN [heap |-> [st.heap EXCEPT ![tgt] =
                        takedamage(@, dealt(computedamage(st.heap[att], st.heap[tgt],
                                                          fieldtype, rnd), defends))],
          last_action |-> [st.last_action EXCEPT ![name] = "ATTACK"]]
    ELSE st

\* a turn that resolves both attacks before the swaps and heals
stepbattle_attackfirst(h, la, ash, rocket, bs, ashact, rocketact, fa, fr) ==
    LET finish(a1, a2) ==
            [heap |-> [a2.heap EXCEPT ![bs].ashactive = advance(a2.heap, ash, a1.idx),
                                      ![bs].rocketactive = advance(a2.heap, rocket, a2.idx)],
             last_action |-> a2.last_action]
        applyrocket(a1) ==
            finish(a1, apply(a1.heap, a1.last_action, rocket, rocketact, h[bs].rocketactive))
        applyash(st) ==
            applyrocket(apply(st.heap, st.last_action, ash, ashact, h[bs].ashactive))
        rocketattack(st) ==
            applyash(attack(st, "Team Rocket", rocketact, rocket.team[h[bs].rocketactive],
                            ash.team[h[bs].ashactive], h[bs].fieldtype,
                            ashact.kind = "DEFEND", fr))
    IN  rocketattack(attack([heap |-> h, last_action |-> defending(la, ashact, rocketact)],
                            "Ash", ashact, ash.team[h[bs].ashactive],
                            rocket.team[h[bs].rocketactive], h[bs].fieldtype,
                            rocketact.kind = "DEFEND", fa))

\* the live turn: the heap and Phase3.last_action after it
stepbattle(h, la, ash, rocket, bs, ashact, rocketact, fa, fr) ==
    LET indices(st, ashidx, rocidx) ==
            [heap |-> [st.heap EXCEPT ![bs].ashactive = advance(st.heap, ash, ashidx),
                                      ![bs].rocketactive = advance(st.heap, rocket, rocidx)],
             last_action |-> st.last_action]
        rocketattack(st, ashidx, rocidx) ==
            indices(attack(st, "Team Rocket", rocketact, rocket.team[rocidx],
                           ash.team[ashidx], st.heap[bs].fieldtype,
                           ashact.kind = "DEFEND", fr),
                    ashidx, rocidx)
        ashattack(st, ashidx, rocidx) ==
            rocketattack(attack(st, "Ash", ashact, ash.team[ashidx], rocket.team[rocidx],
                                st.heap[bs].fieldtype, rocketact.kind = "DEFEND", fa),
                         ashidx, rocidx)
        applied(a1, a2) ==
            ashattack([heap |-> a2.heap,
                       last_action |-> defending(a2.last_action, ashact, rocketact)],
                      a1.idx, a2.idx)
        applyrocket(a1) ==
            applied(a1, apply(a1.heap, a1.last_action, rocket, rocketact, h[bs].rocketactive))
    IN  applyrocket(apply(h, la, ash, ashact, h[bs].ashactive))

--------------------------------------------------------------------------
(* team_rocket_ai_agent.py: cloneagent, decide_action *)

\* the heap is the sequence of the objects allocated so far, an object's
\* identity its position; NextId is the identity of the next allocation
NextId(h) == Len(h) + 1
\* the heap once the objects allocated after the n-th are unreachable
Restrict(h, n) == SubSeq(h, 1, n)

\* a copy of the Agent alone, its team and its dict still the objects of a
cloneagent_shallow(h, a) == [heap |-> h, agent |-> a]

\* new Pokemon objects and a new dict, holding the values of a's
cloneagent(h, a) ==
    LET n == LenTeam(a)
        base == NextId(h)
    IN  [heap |-> h \o [i \in 1..n |-> h[a.team[i - 1]]] \o <<h[a.elixirs]>>,
         agent |-> Agent(a.name, [i \in 0..(n - 1) |-> base + i], base + n)]

\* BattleState(s.fieldtype, s.ashactive, s.rocketactive)
clonestate(h, s) == [heap |-> Append(h, h[s]), state |-> NextId(h)]

INF == 1000000000
NoneAct == BattleAction("None", NoArg)

KINDS == {"ATTACK", "DEFEND", "SWAP", "HEAL"}
\* the orders random.shuffle is taken to leave the candidates in: order is a
\* permutation of the kinds, the candidates (at most one of each kind) are laid
\* out along it; each kind comes first in one of the orders
ORDERS == { <<"ATTACK", "DEFEND", "SWAP", "HEAL">>, <<"DEFEND", "SWAP", "HEAL", "ATTACK">>,
            <<"SWAP", "HEAL", "ATTACK", "DEFEND">>, <<"HEAL", "ATTACK", "DEFEND", "SWAP">> }
shuffle(actions, order) ==
    LET pick(k) == SelectSeq(actions, LAMBDA x : x.kind = k)
    IN  pick(order[1]) \o pick(order[2]) \o pick(order[3]) \o pick(order[4])

\* the comparison of the cutoff the wrong way round
cutoff_swapped(alpha, beta) == alpha <= beta

\* line 121: the alpha-beta cutoff
cutoff(alpha, beta) == beta <= alpha

RECURSIVE recurse(_, _, _, _, _, _, _, _, _, _)
RECURSIVE recurseloop(_, _, _, _, _, _, _, _, _, _, _, _, _, _, _, _)

\* line 118-119 and 111-112: does val replace the best value so far
better(maximizing, val, bestval) == IF maximizing THEN val > bestval ELSE val < bestval

\* the loop of recurse from the i-th candidate on.  val and act are what
\* recurse returns and heap the objects as the loop leaves them; leaves counts
\* the terminal nodes evaluated and widths collects the numbers of candidates
\* of the nodes expanded
recurseloop(h, a, b, s, ply, maximizing, alpha, beta, meisash, rnd, actions, i, bestval, bestact, leaves, widths) ==
    IF i > Len(actions)
    THEN [val |-> bestval, act |-> bestact, heap |-> h, leaves |-> leaves,
          widths |-> widths]
    ELSE
    LET ashact == IF maximizing THEN actions[i] ELSE ATTACK
        rocketact == IF maximizing THEN ATTACK ELSE actions[i]
        \* the clones are unreachable once the iteration ends
        continue(hout, lv, ws, bv, ba, al, be) ==
            IF cutoff(al, be)
            THEN [val |-> bv, act |-> ba, heap |-> hout, leaves |-> lv, widths |-> ws]
            ELSE recurseloop(hout, a, b, s, ply, maximizing, al, be, meisash, rnd,
                             actions, i + 1, bv, ba, lv, ws)
        bounds(r, bv, ba) ==
            continue(Restrict(r.heap, Len(h)), leaves + r.leaves, widths \cup r.widths,
                     bv, ba,
                     IF maximizing THEN Max(alpha, bv) ELSE alpha,
                     IF maximizing THEN beta ELSE Min(beta, bv))
        best(r) ==
            bounds(r, IF better(maximizing, r.val, bestval) THEN r.val ELSE bestval,
                      IF better(maximizing, r.val, bestval) THEN actions[i] ELSE bestact)
        simulate(cs, aclone, bclone) ==
            best(recurse(stepbattle_simulation(cs.heap, aclone, bclone, cs.state,
                                               ashact, rocketact, rnd.fa, rnd.fr),
                         aclone, bclone, cs.state, ply - 1, ~maximizing, alpha, beta,
                         meisash, rnd))
        cloneb(ca, cb) == simulate(clonestate(cb.heap, s), ca.agent, cb.agent)
        clonea(ca) == cloneb(ca, cloneagent(ca.heap, b))
    IN  clonea(cloneagent(h, a))

\* rnd: the factors random.uniform draws for Ash's and for Team Rocket's simulated
\* attacks and the order random.shuffle leaves the candidates in
recurse(h, a, b, s, ply, maximizing, alpha, beta, meisash, rnd) ==
    IF ply = 0 \/ ~anyalive(h, a) \/ ~anyalive(h, b)
    THEN LET signed(score) == IF meisash THEN score ELSE -score
         IN  [val |-> signed(evalstate(h, IF meisash THEN a ELSE b,
                                       IF meisash THEN b ELSE a, s)),
              act |-> NoneAct, heap |-> h, leaves |-> 1, widths |-> {}]
    ELSE
    LET currentactiveidx == IF maximizing THEN h[s].ashactive ELSE h[s].rocketactive
        oppactiveidx == IF maximizing THEN h[s].rocketactive ELSE h[s].ashactive
        agentforactions == IF maximizing THEN a ELSE b
        oppforactions == IF maximizing THEN b ELSE a
        actions == shuffle(legalactions(h, agentforactions, currentactiveidx,
                                        h[oppforactions.team[oppactiveidx]]), rnd.order)
    IN  recurseloop(h, a, b, s, ply, maximizing, alpha, beta, meisash, rnd,
                    actions, 1, IF maximizing THEN -INF ELSE INF, NoneAct, 0,
                    {Len(actions)})

\* the root call of decide_action
rootcall(h, me, opp, bs, meisash, depth, rnd) ==
    recurse(h, IF meisash THEN me ELSE opp, IF meisash THEN opp ELSE me, bs, depth,
            meisash, -INF, INF, meisash, rnd)

\* decide_action without the `or BattleAction(ATTACK)` of its last line
decide_action_nofallback(h, me, opp, bs, meisash, depth, rnd) ==
    LET returned(r) == [action |-> r.act, heap |-> r.heap]
    IN  returned(rootcall(h, me, opp, bs, meisash, depth, rnd))

\* action: the BattleAction returned; heap: the objects after the call
decide_action(h, me, opp, bs, meisash, depth, rnd) ==
    LET returned(r) == [action |-> IF r.act = NoneAct THEN ATTACK ELSE r.act,
                        heap |-> r.heap]
    IN  returned(rootcall(h, me, opp, bs, meisash, depth, rnd))

--------------------------------------------------------------------------
(* The live objects of a battle (main.py, Game.initgame) *)

ash == Agent("Ash", [i \in 0..2 |-> 1 + i], 4)
rocket == Agent("Team Rocket", [i \in 0..2 |-> 5 + i], 8)
bs == 9
LiveIds == 1..9

\* the percentages random.uniform(0.8, 1.2) is taken to draw
Factors == {80, 100, 120}
\* the random source of one decide_action call
Rnds == [fa : Factors, fr : Factors, order : ORDERS]

\* a side during a battle: the hp of its roster, its active index and the Small
\* potions it holds (Phase2.doelixirpurchases spends the 100 coins on six Small)
Fresh == [hps |-> <<100, 100, 100>>, active |-> 0, small |-> 6]
LowLead == [hps |-> <<20, 100, 100>>, active |-> 0, small |-> 6]
LowFire == [hps |-> <<100, 20, 0>>, active |-> 1, small |-> 2]
TwoLeft == [hps |-> <<0, 8, 100>>, active |-> 1, small |-> 0]
OneLeft == [hps |-> <<0, 0, 8>>, active |-> 2, small |-> 1]
LastStrong == [hps |-> <<0, 0, 90>>, active |-> 2, small |-> 3]
Defeated == [hps |-> <<0, 0, 0>>, active |-> 2, small |-> 0]
SideStates == {Fresh, LowLead, LowFire, TwoLeft, OneLeft, LastStrong, Defeated}

BattleHeap(sa, sr, fieldtype) ==
    << Pokemon(ASHTEAMSPECIES[0], sa.hps[1]), Pokemon(ASHTEAMSPECIES[1], sa.hps[2]),
       Pokemon(ASHTEAMSPECIES[2], sa.hps[3]),
       [Small |-> sa.small, Medium |-> 0, Large |-> 0],
       Pokemon(ROCKETTEAMSPECIES[0], sr.hps[1]), Pokemon(ROCKETTEAMSPECIES[1], sr.hps[2]),
       Pokemon(ROCKETTEAMSPECIES[2], sr.hps[3]),
       [Small |-> sr.small, Medium |-> 0, Large |-> 0],
       [fieldtype |-> fieldtype, ashactive |-> sa.active, rocketactive |-> sr.active] >>

\* the state set up with Phase3 object p3 and environment e
InitAt(h, p3, e) ==
    /\ heap = h
    /\ last_action = [n \in {"Ash", "Team Rocket"} |-> "WAITING"]
    /\ op = "init"
    /\ prev = h
    /\ args = <<>>
    /\ ret = <<>>
    /\ turn = 0
    /\ phase3 = p3
    /\ env = e

\* Phase3.__init__: the timer is not started
NewPhase3 == [phase_start_time |-> 0, nextdecisiontime |-> 0]

InitOf(h) == InitAt(h, NewPhase3, [now |-> 1, waiting_for_audio |-> FALSE])

--------------------------------------------------------------------------
(* The battle phase: Phase3.update from the start of a battle and from     *)
(* battles under way                                                       *)

Battles ==
    {BattleHeap(Fresh, Fresh, f) : f \in TYPES}
    \cup {BattleHeap(LowFire, OneLeft, "Water"), BattleHeap(OneLeft, TwoLeft, "Fire"),
          BattleHeap(OneLeft, OneLeft, "Electric"), BattleHeap(TwoLeft, LowLead, "Fire"),
          BattleHeap(LowLead, LowFire, "Electric"), BattleHeap(TwoLeft, OneLeft, "Water"),
          BattleHeap(LowLead, Fresh, "Water")}

\* the battles under way among Battles
Underway == {h \in Battles : \E i \in LiveIds \ {ash.elixirs, rocket.elixirs, bs} : h[i].hp < DEFAULTMAXHP}

\* a battle that begins (timer not started, the phase voice playing or not),
\* or a battle under way a minute after its start with a decision due
Init ==
    \/ \E h \in Battles \ Underway, w \in BOOLEAN :
           InitAt(h, NewPhase3, [now |-> 1, waiting_for_audio |-> w])
    \/ \E h \in Underway :
           InitAt(h, [phase_start_time |-> 1, nextdecisiontime |-> 601],
                  [now |-> 601, waiting_for_audio |-> FALSE])

\* the depth both call sites of Phase3.update pass
DEPTH == 3

\* ash_ai_agent.decide_action: the search engine, invoked for Ash
ash_decide(h, me, opp, s, depth, rnd) == decide_action(h, me, opp, s, TRUE, depth, rnd)
rocket_decide(h, me, opp, s, depth, rnd) == decide_action(h, me, opp, s, FALSE, depth, rnd)

\* PHASE3_TIME in tenths of a second, the unit of the clock
PHASE3_TIME == 1300

\* what the clock advances by from one call of update to the next
Advances == {5, 1300}

\* lines 35-37: the timer is started by the first call that gets this far
started(p3, now) ==
    IF p3.phase_start_time = 0
    THEN [phase_start_time |-> now, nextdecisiontime |-> now + 10]
    ELSE p3

\* lines 42-44: the winner when a roster has no living creature
defeatwinner(h) == IF ~anyalive(h, ash) THEN "Team Rocket" ELSE "Ash"

\* a time-out that never declares a draw
timeoutwinner_nodraw(h) ==
    IF hpsum(h, ash) >= hpsum(h, rocket) THEN "Ash" ELSE "Team Rocket"

\* lines 48-55: the winner when the time is up
timeoutwinner(h) ==
    IF hpsum(h, ash) > hpsum(h, rocket) THEN "Ash"
    ELSE IF hpsum(h, rocket) > hpsum(h, ash) THEN "Team Rocket"
    ELSE "Draw"

\* update returned (True, winner): Game.update leaves the BATTLE state
Over == op = "update" /\ ret.should_transition

\* what every call of update that makes no turn leaves as it is
untouched(adv) ==
    /\ args' = [adv |-> adv]
    /\ op' = "update"
    /\ prev' = heap
    /\ UNCHANGED <<heap, last_action, turn>>

\* the longest the phase voice plays, in tenths of a second
MaxVoice == 10

\* lines 31-32: the phase voice is still playing
update_audio ==
    /\ ~Over
    /\ env.waiting_for_audio
    /\ \E adv \in Advances :
           /\ env.now + adv <= MaxVoice
           /\ env' = [env EXCEPT !.now = @ + adv]
           /\ untouched(adv)
    /\ ret' = [should_transition |-> FALSE, winner |-> "None"]
    /\ UNCHANGED phase3

\* lines 39-44: a roster has no living creature
update_defeat ==
    /\ ~Over
    /\ ~anyalive(heap, ash) \/ ~anyalive(heap, rocket)
    /\ \E adv \in Advances :
           /\ env' = [now |-> env.now + adv, waiting_for_audio |-> FALSE]
           /\ phase3' = started(phase3, env.now + adv)
           /\ untouched(adv)
    /\ ret' = [should_transition |-> TRUE, winner |-> defeatwinner(heap)]

\* lines 46-56: the time of the phase is up
update_timeout ==
    /\ ~Over
    /\ anyalive(heap, ash) /\ anyalive(heap, rocket)
    /\ \E adv \in Advances :
           /\ env.now + adv - started(phase3, env.now + adv).phase_start_time > PHASE3_TIME
           /\ env' = [now |-> env.now + adv, waiting_for_audio |-> FALSE]
           /\ phase3' = started(phase3, env.now + adv)
           /\ untouched(adv)
    /\ ret' = [should_transition |-> TRUE, winner |-> timeoutwinner(heap)]

\* lines 58-60: no decision is due yet
update_wait ==
    /\ ~Over
    /\ anyalive(heap, ash) /\ anyalive(heap, rocket)
    /\ \E adv \in Advances :
           /\ env.now + adv - started(phase3, env.now + adv).phase_start_time <= PHASE3_TIME
           /\ env.now + adv < started(phase3, env.now + adv).nextdecisiontime
           /\ env' = [now |-> env.now + adv, waiting_for_audio |-> FALSE]
           /\ phase3' = started(phase3, env.now + adv)
           /\ untouched(adv)
    /\ ret' = [should_transition |-> FALSE, winner |-> "None"]

\* lines 62-74: both sides decide and the turn is played
update_turn ==
    /\ ~Over
    /\ turn < MaxTurns
    /\ anyalive(heap, ash) /\ anyalive(heap, rocket)
    /\ \E adv \in Advances :
           /\ env.now + adv - started(phase3, env.now + adv).phase_start_time <= PHASE3_TIME
           /\ env.now + adv >= started(phase3, env.now + adv).nextdecisiontime
           /\ env' = [now |-> env.now + adv, waiting_for_audio |-> FALSE]
           /\ phase3' = [started(phase3, env.now + adv) EXCEPT
                             !.nextdecisiontime = env.now + adv + 7]
           /\ \E D1 \in {{ash_decide(heap, ash, rocket, bs, DEPTH, ra) : ra \in Rnds}} :
              \E h1 \in {d.heap : d \in D1} :
              \E D2 \in {{rocket_decide(h1, rocket, ash, bs, DEPTH, rr) : rr \in Rnds}} :
              \E d1 \in {d \in D1 : d.heap = h1}, d2 \in D2, fa \in Factors, fr \in Factors :
                  \E st \in {stepbattle(d2.heap, last_action, ash, rocket, bs,
                                        d1.action, d2.action, fa, fr)} :
                      /\ heap' = st.heap
                      /\ last_action' = st.last_action
                      /\ args' = [adv |-> adv, ashact |-> d1.action,
                                  rocketact |-> d2.action, fa |-> fa, fr |-> fr]
    /\ ret' = [should_transition |-> FALSE, winner |-> "None"]
    /\ op' = "update"
    /\ prev' = heap
    /\ turn' = turn + 1

\* Phase3.update, called by Game.update in the BATTLE state
update == update_audio \/ update_defeat \/ update_timeout \/ update_wait \/ update_turn

Next == update

Spec == Init /\ [][Next]_vars

--------------------------------------------------------------------------
(* stepbattle and decide_action applied once to a battle state *)

\* no reachable battle has both rosters fainted
BattleStates ==
    {BattleHeap(sa, sr, f) : sa \in SideStates, sr \in SideStates \ {Defeated}, f \in TYPES}
    \cup {BattleHeap(sa, Defeated, f) : sa \in SideStates \ {Defeated}, f \in TYPES}

InitAny == \E h \in BattleStates : InitOf(h)

\* the actions a caller can pass, the malformed ones included
StepActions ==
    {ATTACK, DEFEND} \cup {SWAP(i) : i \in -1..3}
    \cup {HEAL(t) : t \in {"Small", "Medium", "Large", "Mega"}}

step ==
    /\ op = "init"
    /\ \E ashact \in StepActions, rocketact \in StepActions, fa \in Factors, fr \in Factors :
           \E st \in {stepbattle(heap, last_action, ash, rocket, bs,
                                 ashact, rocketact, fa, fr)} :
               /\ heap' = st.heap
               /\ last_action' = st.last_action
               /\ args' = [ashact |-> ashact, rocketact |-> rocketact, fa |-> fa, fr |-> fr]
    /\ op' = "step"
    /\ prev' = heap
    /\ ret' = <<>>
    /\ UNCHANGED <<turn, phase3, env>>

SpecStep == InitAny /\ [][step]_vars

\* decide_action(me, opp, bs, meisash, depth) called on the live objects; ret
\* holds what the root call of recurse returned and the action handed back
probe ==
    /\ op = "init"
    /\ \E meisash \in BOOLEAN, depth \in 0..MaxDepth, rnd \in Rnds :
           \E me \in {IF meisash THEN ash ELSE rocket},
              opp \in {IF meisash THEN rocket ELSE ash} :
           \E r \in {rootcall(heap, me, opp, bs, meisash, depth, rnd)},
              d \in {decide_action(heap, me, opp, bs, meisash, depth, rnd)} :
               /\ heap' = d.heap
               /\ args' = [meisash |-> meisash, depth |-> depth, rnd |-> rnd]
               /\ ret' = [val |-> r.val, act |-> r.act, leaves |-> r.leaves,
                          widths |-> r.widths, action |-> d.action]
    /\ op' = "probe"
    /\ prev' = heap
    /\ UNCHANGED <<last_action, turn, phase3, env>>

SpecSearch == InitAny /\ [][probe]_vars

--------------------------------------------------------------------------
(* One creature under any sequence of takedamage and heal calls *)

InitPoke == \E t \in TYPES : InitOf(<<Pokemon(t, DEFAULTMAXHP)>>)

calltakedamage ==
    /\ \E dmg \in 0..MaxAmount :
           /\ heap' = [heap EXCEPT ![1] = takedamage(@, dmg)]
           /\ args' = dmg
    /\ op' = "takedamage"
    /\ prev' = heap
    /\ UNCHANGED <<last_action, ret, turn, phase3, env>>

callheal ==
    /\ \E amt \in 0..MaxAmount :
           /\ heap' = [heap EXCEPT ![1] = heal(@, amt)]
           /\ args' = amt
    /\ op' = "heal"
    /\ prev' = heap
    /\ UNCHANGED <<last_action, ret, turn, phase3, env>>

NextPoke == calltakedamage \/ callheal

SpecPoke == InitPoke /\ [][NextPoke]_vars

--------------------------------------------------------------------------
(* Pokemon.takedamage and Pokemon.heal called with any integer, negative   *)
(* ones included: the methods take an int and test nothing about its sign  *)

\* the calls made on one creature
MaxCalls == 3

Amounts == (0 - MaxAmount)..MaxAmount

takedamageany ==
    /\ turn < MaxCalls
    /\ \E dmg \in Amounts :
           /\ heap' = [heap EXCEPT ![1] = takedamage(@, dmg)]
           /\ args' = dmg
    /\ op' = "takedamage"
    /\ prev' = heap
    /\ turn' = turn + 1
    /\ UNCHANGED <<last_action, ret, phase3, env>>

healany ==
    /\ turn < MaxCalls
    /\ \E amt \in Amounts :
           /\ heap' = [heap EXCEPT ![1] = heal(@, amt)]
           /\ args' = amt
    /\ op' = "heal"
    /\ prev' = heap
    /\ turn' = turn + 1
    /\ UNCHANGED <<last_action, ret, phase3, env>>

NextPokeAny == takedamageany \/ healany

SpecPokeAny == InitPoke /\ [][NextPokeAny]_vars

--------------------------------------------------------------------------
(* The candidate generator and the fuzzy rules as functions of a battle    *)
(* state: legalactions, should_swap and should_heal are called for either  *)
(* side on rosters of every health and on potion stocks of every tier.     *)
(* buylogic only ever stocks Small; stocks of the other tiers are inputs   *)
(* of legalactions, which reads whatever dictionary the Agent holds.       *)

HpLevels == {1, 10, 15, 19, 20, 21, 25, 29, 30, 31, 40, 50, 65, 80, 99, 100}
Benches == {<<0, 0>>, <<0, 100>>, <<100, 0>>, <<100, 100>>}
Stocks == [{"Small", "Medium", "Large"} -> 0..1]

\* a roster whose active creature idx has hp and whose bench is b
RosterHps(idx, hp, b) ==
    [i \in 1..3 |-> IF i = idx + 1 THEN hp ELSE IF i < idx + 1 THEN b[i] ELSE b[i - 1]]

LegalHeap(ai, ahp, ab, stock, ri, rhp) ==
    [BattleHeap([hps |-> RosterHps(ai, ahp, ab), active |-> ai, small |-> 0],
                [hps |-> RosterHps(ri, rhp, <<100, 100>>), active |-> ri, small |-> 6],
                "Fire") EXCEPT ![ash.elixirs] = stock]

InitLegal ==
    \E ai \in 0..2, ahp \in HpLevels, ab \in Benches, stock \in Stocks,
       ri \in 0..2, rhp \in HpLevels :
        InitOf(LegalHeap(ai, ahp, ab, stock, ri, rhp))

\* legalactions(agent, activeidx, opppokemon) with the confidences it is built
\* from: should_swap is given the bench flag the generator computes
generate(agent, activeidx, opppokemon) ==
    /\ op = "init"
    /\ ret' = [acts |-> legalactions(heap, agent, activeidx, opppokemon),
               swap_strength |->
                   should_swap(heap[agent.team[activeidx]].ptype, opppokemon.ptype,
                               bestswapidx(heap, agent, activeidx, opppokemon) # -1,
                               Fr(heap[agent.team[activeidx]].hp * 100,
                                  heap[agent.team[activeidx]].maxhp)),
               heal_strength |->
                   should_heal(Fr(heap[agent.team[activeidx]].hp * 100,
                                  heap[agent.team[activeidx]].maxhp),
                               \E k \in DOMAIN heap[agent.elixirs] :
                                   heap[agent.elixirs][k] > 0,
                               Fr(opppokemon.hp * 100, opppokemon.maxhp))]
    /\ args' = [agent |-> agent, activeidx |-> activeidx, opppokemon |-> opppokemon]
    /\ op' = "legalactions"
    /\ prev' = heap
    /\ UNCHANGED <<heap, last_action, turn, phase3, env>>

generateash == generate(ash, heap[bs].ashactive, heap[rocket.team[heap[bs].rocketactive]])
generaterocket == generate(rocket, heap[bs].rocketactive, heap[ash.team[heap[bs].ashactive]])

NextLegal == generateash \/ generaterocket

SpecLegal == InitLegal /\ [][NextLegal]_vars

--------------------------------------------------------------------------
(* Successive turns of Attack and Defend: stepbattle called turn after     *)
(* turn on the same battle, as Phase3.update does while both sides live    *)

\* the turns played in a row
MaxRounds == 2

DefendActions == {ATTACK, DEFEND}

\* ret keeps the actions of the turn before
round ==
    /\ turn < MaxRounds
    /\ anyalive(heap, ash) /\ anyalive(heap, rocket)
    /\ \E ashact \in DefendActions, rocketact \in DefendActions,
          fa \in Factors, fr \in Factors :
           \E st \in {stepbattle(heap, last_action, ash, rocket, bs,
                                 ashact, rocketact, fa, fr)} :
               /\ heap' = st.heap
               /\ last_action' = st.last_action
               /\ args' = [ashact |-> ashact, rocketact |-> rocketact, fa |-> fa, fr |-> fr]
    /\ op' = "round"
    /\ prev' = heap
    /\ ret' = args
    /\ turn' = turn + 1
    /\ UNCHANGED <<phase3, env>>

InitDefend == \E h \in Battles : InitOf(h)

SpecDefend == InitDefend /\ [][round]_vars

--------------------------------------------------------------------------
(* utils.py: astar on grids of GridW x GridH cells, the scaled-down GRIDW  *)
(* x GRIDH of config.py. For a running call heap holds the objects of the  *)
(* call (grid, openset, came, g, f), args its start and goal, ret the list *)
(* it returns and turn the passes of its while loop. min() over a set      *)
(* breaks ties among equal f by the set's iteration order: any cell of     *)
(* least f may be taken.                                                   *)

GridW == 4
GridH == 3
\* the most cells of a grid that hold an obstacle
MaxObstacles == 2

Cells == (0..(GridW - 1)) \X (0..(GridH - 1))
DIRS == << <<1, 0>>, <<-1, 0>>, <<0, 1>>, <<0, -1>> >>

inbounds(x, y) == 0 <= x /\ x < GridW /\ 0 <= y /\ y < GridH
manhattan(a, b) == Abs(a[1] - b[1]) + Abs(a[2] - b[2])

\* dict.get(key, 1e9)
BIG == 1000000000
GetOrBig(d, key) == IF key \in DOMAIN d THEN d[key] ELSE BIG

\* the sets of at most n cells
RECURSIVE CellSets(_)
CellSets(n) ==
    IF n = 0 THEN {{}}
    ELSE LET smaller == CellSets(n - 1)
         IN  smaller \cup {s \cup {c} : s \in smaller, c \in Cells}

\* grid[y][x] = 1 on the cells of obstacles
GridOf(obstacles) ==
    [y \in 0..(GridH - 1) |->
        [x \in 0..(GridW - 1) |-> IF <<x, y>> \in obstacles THEN 1 ELSE 0]]

\* the agent stands on a free cell; the goal is any cell of the grid
InitAstar ==
    \E obstacles \in CellSets(MaxObstacles), start \in Cells, goal \in Cells :
        /\ start \notin obstacles
        /\ heap = [grid |-> GridOf(obstacles), openset |-> {}, came |-> <<>>,
                   g |-> <<>>, f |-> <<>>]
        /\ prev = heap
        /\ args = [start |-> start, goal |-> goal]
        /\ op = "init"
        /\ ret = <<>>
        /\ turn = 0
        /\ last_action = [n \in {"Ash", "Team Rocket"} |-> "WAITING"]
        /\ phase3 = [phase_start_time |-> 0, nextdecisiontime |-> 0]
        /\ env = [now |-> 1, waiting_for_audio |-> FALSE]

\* lines 96-102: the early return, or the dictionaries of a search
astarcall ==
    /\ op = "init"
    /\ IF args.start = args.goal
       THEN /\ ret' = <<args.start>>
            /\ op' = "return"
            /\ UNCHANGED heap
       ELSE /\ heap' = [heap EXCEPT !.openset = {args.start},
                                    !.came = [n \in {} |-> n],
                                    !.g = [n \in {args.start} |-> 0],
                                    !.f = [n \in {args.start} |->
                                              manhattan(args.start, args.goal)]]
            /\ op' = "loop"
            /\ UNCHANGED ret
    /\ UNCHANGED <<prev, args, turn, last_action, phase3, env>>

\* a pass that takes any open cell, whatever its f
Least_any(openset, f) == openset

\* the cells min(openset, key = f.get) may return
Least(openset, f) ==
    {n \in openset : \A m \in openset : GetOrBig(f, n) <= GetOrBig(f, m)}

\* a reconstruction that forgets path.reverse(): the list runs goal first
RECURSIVE backtrack_unreversed(_, _)
backtrack_unreversed(came, current) ==
    IF current \in DOMAIN came
    THEN <<current>> \o backtrack_unreversed(came, came[current])
    ELSE <<current>>

\* lines 106-112: the list from start to current along came
RECURSIVE backtrack(_, _)
backtrack(came, current) ==
    IF current \in DOMAIN came
    THEN Append(backtrack(came, came[current]), current)
    ELSE <<current>>

\* line 119 with everything off: obstacles are walked through
passable_anywhere(grid, nx, ny) == inbounds(nx, ny)
\* line 119: the neighbour is on the grid and holds no obstacle
passable(grid, nx, ny) == inbounds(nx, ny) /\ grid[ny][nx] # 1

\* lines 117-127: the neighbours of current that current improves
improved(h, current) ==
    {n \in {<<current[1] + DIRS[d][1], current[2] + DIRS[d][2]>> : d \in DOMAIN DIRS} :
        /\ passable(h.grid, n[1], n[2])
        /\ GetOrBig(h.g, current) + 1 < GetOrBig(h.g, n)}

\* the dictionary d with value v stored under every key of keys
Store(d, keys, v) ==
    [n \in DOMAIN d \cup keys |-> IF n \in keys THEN v[n] ELSE d[n]]

\* one pass of the while loop in which current is not the goal
expand ==
    /\ op = "loop"
    /\ \E current \in Least(heap.openset, heap.f) :
           /\ current # args.goal
           /\ \E nb \in {improved(heap, current)} :
                  heap' = [heap EXCEPT
                      !.openset = (@ \ {current}) \cup nb,
                      !.came = Store(@, nb, [n \in nb |-> current]),
                      !.g = Store(@, nb, [n \in nb |-> GetOrBig(heap.g, current) + 1]),
                      !.f = Store(@, nb, [n \in nb |-> GetOrBig(heap.g, current) + 1
                                                       + manhattan(n, args.goal)])]
    /\ turn' = turn + 1
    /\ UNCHANGED <<op, prev, args, ret, last_action, phase3, env>>

\* the pass in which current is the goal
found ==
    /\ op = "loop"
    /\ args.goal \in Least(heap.openset, heap.f)
    /\ ret' = backtrack(heap.came, args.goal)
    /\ op' = "return"
    /\ turn' = turn + 1
    /\ UNCHANGED <<heap, prev, args, last_action, phase3, env>>

\* line 129: the open set ran empty
exhausted ==
    /\ op = "loop"
    /\ heap.openset = {}
    /\ ret' = <<>>
    /\ op' = "return"
    /\ UNCHANGED <<heap, prev, args, turn, last_action, phase3, env>>

NextAstar == astarcall \/ expand \/ found \/ exhausted

SpecAstar == InitAstar /\ [][NextAstar]_vars

--------------------------------------------------------------------------
(* phase_3.py: computedamage as a function of the two creatures, the field *)
(* and the random draw. Every Pokemon of the game has the default stats;   *)
(* the function reads whatever atk and dfn the two objects hold.           *)

\* the largest atk and dfn of a creature
MaxStat == 30

\* a creature of the given type and stats at full hp
Statted(ptype, atk, dfn) == [Pokemon(ptype, DEFAULTMAXHP) EXCEPT !.atk = atk, !.dfn = dfn]

\* heap holds the attacker and the defender: identically statted, or the
\* defender with the default stats
InitDamage ==
    \E ta \in TYPES, td \in TYPES, atk \in 0..MaxStat, dfn \in 0..MaxStat, same \in BOOLEAN :
        InitOf(<<Statted(ta, atk, dfn),
                 IF same THEN Statted(td, atk, dfn)
                 ELSE Statted(td, DEFAULTATK, DEFAULTDFN)>>)

\* computedamage(attacker, defender, fieldtype), and the defender's attack
\* back on the same field with the same draw
callcomputedamage ==
    /\ op = "init"
    /\ \E fieldtype \in TYPES, rnd \in Factors :
           /\ ret' = [dmg |-> computedamage(heap[1], heap[2], fieldtype, rnd),
                      back |-> computedamage(heap[2], heap[1], fieldtype, rnd)]
           /\ args' = [fieldtype |-> fieldtype, rnd |-> rnd]
    /\ op' = "computedamage"
    /\ prev' = heap
    /\ UNCHANGED <<heap, last_action, turn, phase3, env>>

SpecDamage == InitDamage /\ [][callcomputedamage]_vars

--------------------------------------------------------------------------
(* main.py: genobstacles on the empty grid of initgame. rng.random() <     *)
(* density is one draw per cell; any set of cells may draw an obstacle.    *)

\* initgame line 162: a grid without obstacles
InitGen ==
    /\ heap = [grid |-> GridOf({})]
    /\ prev = heap
    /\ args = <<>>
    /\ op = "init"
    /\ ret = <<>>
    /\ turn = 0
    /\ last_action = [n \in {"Ash", "Team Rocket"} |-> "WAITING"]
    /\ phase3 = NewPhase3
    /\ env = [now |-> 1, waiting_for_audio |-> FALSE]

\* line 243: the cells genobstacles may write to
writable(x, y) == x > 0 /\ x < GridW - 1 /\ y > 0 /\ y < GridH - 1

\* drawn: the cells whose draw fell under the density
genobstacles ==
    /\ op = "init"
    /\ \E drawn \in SUBSET Cells :
           /\ heap' = [heap EXCEPT !.grid =
                          GridOf({c \in drawn : writable(c[1], c[2])})]
           /\ args' = [drawn |-> drawn]
    /\ op' = "genobstacles"
    /\ prev' = heap
    /\ UNCHANGED <<ret, turn, last_action, phase3, env>>

SpecGen == InitGen /\ [][genobstacles]_vars

--------------------------------------------------------------------------
(* phase_1.py: movetrainer for one trainer of the catching phase. The      *)
(* trainer's Agent is heap.agent; pokemon_caught, current_target and       *)
(* pokemon_locations are the entries of its tag, a creature being named by *)
(* its place in the roster. A position counts 1/Resolution of a cell. The  *)
(* call of astar runs as astarcall, expand, found and exhausted on the     *)
(* locals kept in heap; movealong is the rest of the update after it.      *)

FUELPERCATCH == 15
STARTFUEL == 45
\* the parts a cell's side is divided into
Resolution == 2

\* the cells randcell may return: a free cell, or the centre after 100 misses
randcell(grid) == {c \in Cells : grid[c[2]][c[1]] = 0} \cup {<<GridW \div 2, GridH \div 2>>}

\* init_phase after initgame: obstacles where genobstacles may write them
InitCatch ==
    \E tag \in {"Ash", "Team Rocket"}, obstacles \in SUBSET {c \in Cells : writable(c[1], c[2])} :
      \E locs \in [0..2 -> randcell(GridOf(obstacles))] :
        /\ heap = [grid |-> GridOf(obstacles), openset |-> {}, came |-> <<>>,
                   g |-> <<>>, f |-> <<>>, tag |-> tag,
                   agent |-> [position |-> IF tag = "Ash"
                                  THEN <<1 * Resolution, (GridH - 2) * Resolution>>
                                  ELSE <<(GridW - 2) * Resolution, 1 * Resolution>>,
                              targetpos |-> IF tag = "Ash"
                                  THEN <<1 * Resolution, (GridH - 2) * Resolution>>
                                  ELSE <<(GridW - 2) * Resolution, 1 * Resolution>>,
                              current_path |-> <<>>, path_index |-> 0,
                              fuel |-> STARTFUEL],
                   pokemon_caught |-> <<>>, current_target |-> 0,
                   pokemon_locations |-> locs]
        /\ prev = heap
        /\ args = <<>>
        /\ op = "update"
        /\ ret = <<>>
        /\ turn = 0
        /\ last_action = [n \in {"Ash", "Team Rocket"} |-> "WAITING"]
        /\ phase3 = NewPhase3
        /\ env = [now |-> 1, waiting_for_audio |-> FALSE]

\* line 97: (int(round(x)), int(round(y)))
current_grid(agent) == <<RoundHalfEven(agent.position[1], Resolution), RoundHalfEven(agent.position[2], Resolution)>>

\* lines 83-88: nothing is left to catch
returnsearly(h) == Len(h.pokemon_caught) >= 3 \/ h.current_target >= 3

\* lines 92-96: the target is in the caught list already
skipped(h) == [h EXCEPT !.current_target = @ + 1, !.agent.current_path = <<>>, !.agent.path_index = 0]

\* a catch that costs no fuel
catch_free(h) == [h EXCEPT !.pokemon_caught = Append(@, h.current_target), !.current_target = @ + 1, !.agent.current_path = <<>>, !.agent.path_index = 0]

\* lines 100-108: on the target's cell
catch(h) ==
    IF h.agent.fuel >= FUELPERCATCH
    THEN [h EXCEPT !.agent.fuel = @ - FUELPERCATCH,
                   !.pokemon_caught = Append(@, h.current_target),
                   !.current_target = @ + 1,
                   !.agent.current_path = <<>>,
                   !.agent.path_index = 0]
    ELSE h

\* line 110: no path, or the path is walked to its end
needspath(agent) == agent.current_path = <<>> \/ agent.path_index >= Len(agent.current_path) - 1

\* a trainer that walks straight for the goal when astar finds no path
adopted_beeline(agent, path, goal) ==
    IF path # <<>> /\ Len(path) > 1
    THEN [agent EXCEPT !.current_path = path, !.path_index = 0]
    ELSE [agent EXCEPT !.current_path = <<current_grid(agent), goal>>, !.path_index = 0]

\* lines 111-114: the path is taken when it has a step to make
adopted(agent, path, goal) ==
    IF path # <<>> /\ Len(path) > 1
    THEN [agent EXCEPT !.current_path = path, !.path_index = 0]
    ELSE agent

\* lines 126-128: position = targetpos, path_index = next_idx
arrived(agent, t) == [agent EXCEPT !.targetpos = t, !.position = t, !.path_index = @ + 1]

\* the points from p towards t that a move of at most the distance may reach
towards(p, t) ==
    {q \in (Min(p[1], t[1])..Max(p[1], t[1])) \X (Min(p[2], t[2])..Max(p[2], t[2])) : q # p}

\* lines 119-137 towards targetpos t: dist < 0.1 arrives; speed > dist
\* arrives; any other speed = MOVESPEEDPX * dt moves part of the way
moved(agent, t) ==
    IF 100 * ((t[1] - agent.position[1]) * (t[1] - agent.position[1])
              + (t[2] - agent.position[2]) * (t[2] - agent.position[2]))
       < Resolution * Resolution
    THEN {arrived(agent, t)}
    ELSE {arrived(agent, t)}
         \cup {[agent EXCEPT !.targetpos = t, !.position = q] : q \in towards(agent.position, t)}

\* lines 116-137: the agents one update may leave
walks(agent) ==
    IF agent.current_path # <<>> /\ agent.path_index < Len(agent.current_path) - 1
    THEN moved(agent, <<agent.current_path[agent.path_index + 2][1] * Resolution,
                        agent.current_path[agent.path_index + 2][2] * Resolution>>)
    ELSE {agent}

\* movetrainer up to its return or its call of astar
movetrainer ==
    /\ op \in {"update", "movetrainer", "asked"}
    /\ prev' = heap
    /\ IF returnsearly(heap)
       THEN heap' = heap /\ op' = "movetrainer" /\ UNCHANGED args
       ELSE IF \E i \in 1..Len(heap.pokemon_caught) : heap.pokemon_caught[i] = heap.current_target
       THEN heap' = skipped(heap) /\ op' = "movetrainer" /\ UNCHANGED args
       ELSE IF current_grid(heap.agent) = heap.pokemon_locations[heap.current_target]
       THEN heap' = catch(heap) /\ op' = "movetrainer" /\ UNCHANGED args
       ELSE IF needspath(heap.agent)
       THEN /\ heap' = heap
            /\ args' = [start |-> current_grid(heap.agent),
                        goal |-> heap.pokemon_locations[heap.current_target]]
            /\ op' = "init"
       ELSE /\ \E a \in walks(heap.agent) : heap' = [heap EXCEPT !.agent = a]
            /\ op' = "movetrainer"
            /\ UNCHANGED args
    /\ turn' = 0
    /\ UNCHANGED <<ret, last_action, phase3, env>>

\* movetrainer from the return of astar: lines 111-137
movealong ==
    /\ op = "return"
    /\ \E a \in walks(adopted(heap.agent, ret, args.goal)) :
           heap' = [heap EXCEPT !.agent = a, !.openset = {}, !.came = <<>>,
                                !.g = <<>>, !.f = <<>>]
    /\ op' = "asked"
    /\ turn' = 0
    /\ UNCHANGED <<prev, args, ret, last_action, phase3, env>>

NextCatch == movetrainer \/ astarcall \/ expand \/ found \/ exhausted \/ movealong

SpecCatch == InitCatch /\ [][NextCatch]_vars

--------------------------------------------------------------------------
(* main.py: the Game and its main loop. heap is the Game: state,           *)
(* paused_from_state, running, winner, and of the object of the running    *)
(* phase what Game.update reads and writes: elapsed is time.time() less    *)
(* the start time of its timer (-1 while the timer is not started), wait   *)
(* is nextdecisiontime less time.time(), pokemon_caught the lengths of the *)
(* two caught lists and alive the living creatures of the two rosters; the *)
(* object of a phase that is over is not kept.                             *)
(* env holds waiting_for_audio and the voice clip of the phase. Times are  *)
(* tenths of a second.                                                     *)

INTRO_TIME == 70
PHASE1_TIME == 300
PHASE2_TIME == 30

\* what the clock advances by between two events of the loop
Ticks == {INTRO_TIME, PHASE3_TIME}

\* initgame, and Phase1 before its first update
newgame(h) ==
    [h EXCEPT !.winner = "None", !.alive = [n \in {"Ash", "Team Rocket"} |-> 3],
              !.pokemon_caught = [n \in {"Ash", "Team Rocket"} |-> 0],
              !.elapsed = -1, !.wait = 0]

\* Game.__init__: game_intro is None until the first update
InitGame ==
    /\ heap = newgame([state |-> "INTRO", paused_from_state |-> "None", running |-> TRUE,
                       winner |-> "None", alive |-> <<>>, pokemon_caught |-> <<>>,
                       elapsed |-> -1, wait |-> 0])
    /\ env = [waiting_for_audio |-> FALSE, voice |-> "none"]
    /\ op = "init"
    /\ prev = <<>>
    /\ args = <<>>
    /\ ret = <<>>
    /\ turn = 0
    /\ last_action = [n \in {"Ash", "Team Rocket"} |-> "WAITING"]
    /\ phase3 = NewPhase3

\* play_voice(key) of a voice not played yet: the clip is loaded or is None
play_voice(e, loaded) ==
    IF loaded THEN [waiting_for_audio |-> TRUE, voice |-> "playing"]
    ELSE [e EXCEPT !.voice = "finished"]

\* the audio gate of Phase1, Phase2 and Phase3: update returns at once
audiowait(e) == e.waiting_for_audio /\ e.voice = "playing"

\* is_voice_finished records a clip whose length has passed
heard(e) ==
    IF e.waiting_for_audio /\ e.voice = "ended"
    THEN [waiting_for_audio |-> FALSE, voice |-> "finished"]
    ELSE e

\* a Pause that stores the state of a game already paused
pausable_always(state) == TRUE

\* handle_input: K_p is ignored while the game is paused
pausable(state) == state # "PAUSED"

\* a battle without a time budget
timedout_never(elapsed) == FALSE

\* Phase3.update: elapsed > PHASE3_TIME
timedout(elapsed) == elapsed > PHASE3_TIME

\* main loop line 490: Game.update is called unless the game is paused
runs(state) == state # "PAUSED"

\* time passes: the timers in use advance; past Late nothing is told apart
tick ==
    /\ heap.running
    /\ \E adv \in Ticks :
           heap' = [heap EXCEPT !.elapsed = IF @ < 0 THEN @ ELSE Min(@ + adv, PHASE3_TIME + INTRO_TIME),
                                !.wait = Max(0, @ - adv)]
    /\ UNCHANGED <<env, op, prev, args, ret, turn, last_action, phase3>>

\* the clip that plays comes to its end
voiceends ==
    /\ heap.running
    /\ env.voice = "playing"
    /\ env' = [env EXCEPT !.voice = "ended"]
    /\ UNCHANGED <<heap, op, prev, args, ret, turn, last_action, phase3>>

\* handle_input: K_p, K_r, K_a and K_e (QUIT and K_ESCAPE end the loop too)
handle_input ==
    /\ heap.running
    /\ \E key \in {"K_p", "K_r", "K_a", "K_e"} :
           IF key = "K_p" /\ pausable(heap.state)
              THEN heap' = [heap EXCEPT !.paused_from_state = heap.state, !.state = "PAUSED"]
                   /\ UNCHANGED env
              ELSE IF key = "K_r" /\ heap.state = "PAUSED"
              THEN heap' = [heap EXCEPT !.state = heap.paused_from_state] /\ UNCHANGED env
              ELSE IF key = "K_e"
              THEN heap' = [heap EXCEPT !.running = FALSE] /\ UNCHANGED env
              ELSE IF key = "K_a" /\ heap.state = "GAMEOVER"
              THEN /\ heap' = [newgame(heap) EXCEPT !.state = "INTRO", !.elapsed = 0]
                   /\ env' = [waiting_for_audio |-> FALSE, voice |-> "none"]
              ELSE UNCHANGED <<heap, env>>
    /\ UNCHANGED <<op, prev, args, ret, turn, last_action, phase3>>

\* INTRO: GameIntro is made on the first update and plays the intro voice;
\* gotocatchphase makes a new Phase1
introupdate(loaded) ==
    IF heap.elapsed > INTRO_TIME
    THEN /\ heap' = [heap EXCEPT !.state = "CATCH", !.elapsed = -1,
                                 !.pokemon_caught = [n \in {"Ash", "Team Rocket"} |-> 0]]
         /\ env' = play_voice(env, loaded)
    ELSE /\ heap' = [heap EXCEPT !.elapsed = IF @ < 0 THEN 0 ELSE @]
         /\ env' = IF env.voice = "none" THEN play_voice(env, loaded) ELSE env

\* CATCH: Phase1.update; each movetrainer may make a catch
phase1update(loaded) ==
    IF audiowait(env) THEN UNCHANGED <<heap, env>>
    ELSE IF heap.elapsed >= PHASE1_TIME
            \/ (heap.pokemon_caught["Ash"] >= 3 /\ heap.pokemon_caught["Team Rocket"] >= 3)
    THEN /\ heap' = [heap EXCEPT !.state = "ELIXIR", !.elapsed = -1,
                                 !.pokemon_caught = [n \in {"Ash", "Team Rocket"} |-> 0]]
         /\ env' = play_voice(heard(env), loaded)
    ELSE /\ \E ca \in 0..1, cr \in 0..1 :
               heap' = [heap EXCEPT !.elapsed = IF @ < 0 THEN 0 ELSE @,
                                    !.pokemon_caught["Ash"] = Min(3, @ + ca),
                                    !.pokemon_caught["Team Rocket"] = Min(3, @ + cr)]
         /\ env' = heard(env)

\* ELIXIR: Phase2.update
phase2update(loaded) ==
    IF audiowait(env) THEN UNCHANGED <<heap, env>>
    ELSE IF heap.elapsed > PHASE2_TIME
    THEN /\ heap' = [heap EXCEPT !.state = "BATTLE", !.elapsed = -1, !.wait = 0]
         /\ env' = play_voice(heard(env), loaded)
    ELSE /\ heap' = [heap EXCEPT !.elapsed = IF @ < 0 THEN 0 ELSE @]
         /\ env' = heard(env)

\* BATTLE: Phase3.update and gogameover; a turn makes at most one creature
\* faint, and the total hp at the time-out may compare either way
phase3update ==
    IF audiowait(env) THEN UNCHANGED <<heap, env>>
    ELSE /\ env' = heard(env)
         /\ IF heap.alive["Ash"] = 0 \/ heap.alive["Team Rocket"] = 0
            THEN heap' = [heap EXCEPT !.state = "GAMEOVER", !.elapsed = -1, !.wait = 0,
                              !.winner = IF heap.alive["Ash"] = 0 THEN "Team Rocket" ELSE "Ash"]
            ELSE IF timedout(heap.elapsed)
            THEN \E w \in {"Ash", "Team Rocket", "Draw"} :
                     heap' = [heap EXCEPT !.state = "GAMEOVER", !.winner = w,
                                          !.elapsed = -1, !.wait = 0]
            ELSE IF heap.elapsed < 0
            THEN heap' = [heap EXCEPT !.elapsed = 0, !.wait = 10]
            ELSE IF heap.wait > 0
            THEN UNCHANGED heap
            ELSE \E fa \in 0..1, fr \in 0..1 :
                     /\ fa + fr <= 1
                     /\ heap' = [heap EXCEPT !.alive["Ash"] = @ - fa,
                                             !.alive["Team Rocket"] = @ - fr,
                                             !.wait = 10]

\* one pass of the main loop that calls Game.update
gameupdate ==
    /\ heap.running
    /\ runs(heap.state)
    /\ \E loaded \in BOOLEAN :
           IF heap.state = "INTRO" THEN introupdate(loaded)
           ELSE IF heap.state = "CATCH" THEN phase1update(loaded)
           ELSE IF heap.state = "ELIXIR" THEN phase2update(loaded)
           ELSE IF heap.state = "BATTLE" THEN phase3update
           ELSE UNCHANGED <<heap, env>>
    /\ UNCHANGED <<op, prev, args, ret, turn, last_action, phase3>>

NextGame == tick \/ voiceends \/ handle_input \/ gameupdate

SpecGame == InitGame /\ [][NextGame]_vars

\* the clock advances, voice clips finish, a paused game is resumed and the
\* loop gets to call Game.update again and again
SpecGameFair ==
    /\ SpecGame
    /\ WF_vars(tick)
    /\ WF_vars(voiceends)
    /\ WF_vars(handle_input /\ heap.state = "PAUSED" /\ heap'.state # "PAUSED")
    /\ SF_vars(gameupdate)

--------------------------------------------------------------------------
(* The claims *)

\* C1: a decide_action call, for either side and at any depth, leaves every
\* live object (the hp and alive flag of each creature of both rosters, both
\* potion inventories, both active indices) exactly as it was before the call
C1_DecideLeavesLiveState ==
    op = "probe" => \A id \in LiveIds : heap[id] = prev[id]

\* a search of Team Rocket's that simulated heals and attacks and chose to heal
C1_Witness ==
    /\ op = "probe" /\ ~args.meisash /\ args.depth >= 2
    /\ ret.action.kind = "HEAL" /\ ret.leaves >= 4
    /\ \A id \in LiveIds : heap[id] = prev[id]

\* C2: the live turn leaves every creature's hp and alive flag, both potion
\* inventories and both active indices as stepbattle_simulation leaves them on
\* the same state, actions and random factors
C2_SimulationAgrees ==
    op = "step" =>
        \A id \in LiveIds :
            heap[id] = stepbattle_simulation(prev, ash, rocket, bs, args.ashact,
                                             args.rocketact, args.fa, args.fr)[id]

\* Ash defends, Team Rocket attacks and Ash's active creature survives the hit
C2_Witness ==
    /\ op = "step" /\ args.ashact = DEFEND /\ args.rocketact = ATTACK
    /\ \E i \in 0..2 : /\ prev[bs].ashactive = i
                       /\ heap[ash.team[i]].hp < prev[ash.team[i]].hp
                       /\ heap[ash.team[i]].alive

\* C3: a creature that starts at hp = maxhp and alive keeps 0 <= hp <= maxhp
\* and is alive exactly when hp is not 0 under takedamage and heal calls with
\* non-negative amounts, and no call changes it once it is not alive
C3_HpBoundedAliveIffPositive ==
    /\ 0 <= heap[1].hp /\ heap[1].hp <= heap[1].maxhp
    /\ heap[1].alive <=> heap[1].hp # 0
    /\ (op \in {"takedamage", "heal"} /\ ~prev[1].alive) => heap[1] = prev[1]

\* a positive heal of a creature that fainted
C3_Witness ==
    /\ op = "heal" /\ args > 0
    /\ ~prev[1].alive /\ prev[1].hp = 0
    /\ heap[1] = prev[1]

\* the index of a side after its own action of the turn: the target of a swap
\* to a living creature of its roster, otherwise the index it had
C4_Swapped(agent, act, idx) ==
    IF /\ act.kind = "SWAP" /\ act.arg.ty = "int"
       /\ act.arg.i \in DOMAIN agent.team
       /\ prev[agent.team[act.arg.i]].alive
    THEN act.arg.i ELSE idx

C4_Side(agent, act, before, after) ==
    LET mid == C4_Swapped(agent, act, before)
        living == {i \in DOMAIN agent.team : heap[agent.team[i]].alive}
    IN  /\ living # {} => after \in living
        /\ IF heap[agent.team[mid]].alive \/ living = {}
           THEN after = mid
           ELSE \A j \in living : after <= j

Exchanged(h) ==
    [id \in LiveIds |->
        IF id = bs THEN [h[bs] EXCEPT !.ashactive = h[bs].rocketactive,
                                      !.rocketactive = h[bs].ashactive]
        ELSE IF id = ash.elixirs THEN h[rocket.elixirs]
        ELSE IF id = rocket.elixirs THEN h[ash.elixirs]
        ELSE IF \E i \in DOMAIN ash.team : ash.team[i] = id
             THEN h[rocket.team[CHOOSE i \in DOMAIN ash.team : ash.team[i] = id]]
             ELSE h[ash.team[CHOOSE i \in DOMAIN rocket.team : rocket.team[i] = id]]]

\* the turn of the last step played with the sides exchanged, exchanged back:
\* Team Rocket's action is the one resolved first
ExchangedTurn ==
    Exchanged(stepbattle(Exchanged(prev), last_action, ash, rocket, bs,
                         args.rocketact, args.ashact, args.fr, args.fa).heap)

Creatures == {ash.team[i] : i \in DOMAIN ash.team} \cup {rocket.team[i] : i \in DOMAIN rocket.team}

\* C5: in a turn in which both sides attack, every creature ends with the same
\* hp whether Ash's or Team Rocket's attack is resolved first
C5_AttackOrderIrrelevant ==
    (op = "step" /\ args.ashact = ATTACK /\ args.rocketact = ATTACK) =>
        \A id \in Creatures : heap[id].hp = ExchangedTurn[id].hp

\* C6: exchanging the two sides of a turn (rosters, inventories, active
\* indices, actions and random draws) yields the exchanged result
C6_SidesSymmetric ==
    op = "step" => \A id \in LiveIds : heap[id] = ExchangedTurn[id]

\* a node the search scores without expanding it
Terminal(h, depth) == depth = 0 \/ ~anyalive(h, ash) \/ ~anyalive(h, rocket)

\* (hp sum of `mine` - hp sum of `theirs`) + 30 * (living of `mine` - living of `theirs`)
Advantage(h, mine, theirs) ==
    (hpsum(h, mine) - hpsum(h, theirs)) + 30 * (alivecount(h, mine) - alivecount(h, theirs))

\* C7, as stated: the score at a terminal root is the advantage of the side
\* that invoked decide_action, for meisash True and False alike, and no action
\* comes with it
C7_ScoreOfInvokingSide ==
    (op = "probe" /\ Terminal(prev, args.depth)) =>
        /\ ret.val = IF args.meisash THEN Advantage(prev, ash, rocket)
                                     ELSE Advantage(prev, rocket, ash)
        /\ ret.act = NoneAct

\* C7, amended: the score at a terminal root is Ash's advantage whichever side
\* invoked decide_action (Team Rocket's call returns its own advantage
\* negated), and no action comes with it
C7_ScoreOfAshSide ==
    (op = "probe" /\ Terminal(prev, args.depth)) =>
        /\ ret.val = Advantage(prev, ash, rocket)
        /\ ret.act = NoneAct

\* Team Rocket's call on a battle Ash has lost, searched with plies to spare
C7_Witness ==
    /\ op = "probe" /\ ~args.meisash /\ args.depth > 0
    /\ ~anyalive(prev, ash)
    /\ ret.val = Advantage(prev, ash, rocket) /\ ret.val < 0
    /\ ret.act = NoneAct

RECURSIVE SumLeaves(_, _)
SumLeaves(children, n) == IF n = 0 THEN 0 ELSE SumLeaves(children, n - 1) + children[n].leaves

RECURSIVE Minimax(_, _, _, _, _)
\* the search of decide_action without the cutoff: the value of the node and
\* the number of terminal nodes below it
Minimax(h, ply, maximizing, meisash, rnd) ==
    IF Terminal(h, ply)
    THEN [val |-> IF meisash THEN Advantage(h, ash, rocket) ELSE -Advantage(h, rocket, ash),
          leaves |-> 1]
    ELSE LET mover == IF maximizing THEN ash ELSE rocket
             moveridx == IF maximizing THEN h[bs].ashactive ELSE h[bs].rocketactive
             target == IF maximizing THEN h[rocket.team[h[bs].rocketactive]]
                                      ELSE h[ash.team[h[bs].ashactive]]
             child(act) ==
                 Minimax(stepbattle_simulation(h, ash, rocket, bs,
                                               IF maximizing THEN act ELSE ATTACK,
                                               IF maximizing THEN ATTACK ELSE act,
                                               rnd.fa, rnd.fr),
                         ply - 1, ~maximizing, meisash, rnd)
             fold(children) ==
                 [val |-> IF maximizing
                          THEN CHOOSE v \in {children[i].val : i \in DOMAIN children} :
                                   \A i \in DOMAIN children : v >= children[i].val
                          ELSE CHOOSE v \in {children[i].val : i \in DOMAIN children} :
                                   \A i \in DOMAIN children : v <= children[i].val,
                  leaves |-> SumLeaves(children, Len(children))]
             over(acts) == fold([i \in DOMAIN acts |-> child(acts[i])])
         IN  over(legalactions(h, mover, moveridx, target))

\* C8: the root value of decide_action's alpha-beta search is the root value of
\* the same search without the cutoff, for every state, side, depth, pair of
\* random factors and candidate order
C8_PruningKeepsRootValue ==
    op = "probe" =>
        ret.val = Minimax(prev, args.depth, args.meisash, args.meisash, args.rnd).val

\* a search that was cut short: it scored fewer terminal nodes than minimax
C8_Witness ==
    /\ op = "probe" /\ args.depth >= 2
    /\ ret.leaves < Minimax(prev, args.depth, args.meisash, args.meisash, args.rnd).leaves
    /\ ret.val = Minimax(prev, args.depth, args.meisash, args.meisash, args.rnd).val

\* the candidates of the side that called, on the state it called with, in the
\* order random.shuffle left them in
RootCandidates ==
    LET me == IF args.meisash THEN ash ELSE rocket
        opp == IF args.meisash THEN rocket ELSE ash
        myidx == IF args.meisash THEN prev[bs].ashactive ELSE prev[bs].rocketactive
        oppidx == IF args.meisash THEN prev[bs].rocketactive ELSE prev[bs].ashactive
    IN  shuffle(legalactions(prev, me, myidx, prev[opp.team[oppidx]]), args.rnd.order)

\* the minimax value of playing the candidate act at the root of the last probe
RootChildValue(act) ==
    Minimax(stepbattle_simulation(prev, ash, rocket, bs,
                                  IF args.meisash THEN act ELSE ATTACK,
                                  IF args.meisash THEN ATTACK ELSE act,
                                  args.rnd.fa, args.rnd.fr),
            args.depth - 1, ~args.meisash, args.meisash, args.rnd).val

\* C9: decide_action never returns None; what it returns is a candidate of
\* legalactions on the live state at call time: Attack when the root is
\* terminal, otherwise the first candidate in iteration order whose value no
\* other candidate improves on
C9_ReturnsLegalAction ==
    op = "probe" =>
        /\ ret.action # NoneAct
        /\ \E i \in DOMAIN RootCandidates : RootCandidates[i] = ret.action
        /\ Terminal(prev, args.depth) => ret.action = ATTACK
        /\ ~Terminal(prev, args.depth) =>
               \E i \in DOMAIN RootCandidates :
                   /\ RootCandidates[i] = ret.action
                   /\ RootChildValue(RootCandidates[i]) = ret.val
                   /\ \A j \in 1..(i - 1) : RootChildValue(RootCandidates[j]) # ret.val

\* Ash's search returns the swap, which was not the first candidate tried
C9_Witness ==
    /\ op = "probe" /\ args.meisash /\ args.depth >= 2
    /\ ret.action.kind = "SWAP"
    /\ RootCandidates[1] # ret.action
    /\ \E i \in DOMAIN RootCandidates : RootCandidates[i] = ret.action

\* a list of candidates as the generator promises it
WellFormed(acts) ==
    /\ \E i \in DOMAIN acts : acts[i] = ATTACK
    /\ \E i \in DOMAIN acts : acts[i] = DEFEND
    /\ Cardinality({i \in DOMAIN acts : acts[i].kind = "SWAP"}) <= 1
    /\ Cardinality({i \in DOMAIN acts : acts[i].kind = "HEAL"}) <= 1
    /\ \A i \in DOMAIN acts : acts[i].kind \in KINDS
    /\ 2 <= Len(acts) /\ Len(acts) <= 4

\* C10: legalactions returns Attack and Defend plus at most one Swap and at
\* most one Heal, every node a search expands has between 2 and 4 candidates,
\* and a search of depth d scores at most 4^d terminal nodes
C10_CandidatesAndLeavesBounded ==
    op = "probe" =>
        /\ WellFormed(legalactions(prev, ash, prev[bs].ashactive,
                                   prev[rocket.team[prev[bs].rocketactive]]))
        /\ WellFormed(legalactions(prev, rocket, prev[bs].rocketactive,
                                   prev[ash.team[prev[bs].ashactive]]))
        /\ \A w \in ret.widths : 2 <= w /\ w <= 4
        /\ ret.leaves <= 4 ^ args.depth

\* a search whose root has all four candidates and that expanded nodes of two
\* candidates as well
C10_Witness ==
    /\ op = "probe" /\ args.depth >= 2
    /\ Len(RootCandidates) = 4
    /\ {2, 4} \subseteq ret.widths
    /\ ret.leaves > 4 /\ ret.leaves <= 4 ^ args.depth

\* a Swap whose target is out of range or fainted, or a Heal of a tier the side
\* owns none of
Malformed(h, agent, act) ==
    \/ /\ act.kind = "SWAP" /\ act.arg.ty = "int"
       /\ \/ act.arg.i \notin DOMAIN agent.team
          \/ ~h[agent.team[act.arg.i]].alive
    \/ /\ act.kind = "HEAL" /\ act.arg.ty = "str"
       /\ DictGet(h[agent.elixirs], act.arg.s) = 0

\* C11: a malformed Swap or Heal changes nothing for its side and the rest of
\* the turn is processed normally: the turn ends as the turn in which that side
\* does nothing, with the side's potion counts as they were and its index as it
\* was unless its active creature fainted
C11_MalformedIsNoOp ==
    op = "step" =>
        /\ Malformed(prev, ash, args.ashact) =>
               /\ heap = stepbattle(prev, last_action, ash, rocket, bs, NoneAct,
                                    args.rocketact, args.fa, args.fr).heap
               /\ heap[ash.elixirs] = prev[ash.elixirs]
               /\ heap[ash.team[prev[bs].ashactive]].alive =>
                      heap[bs].ashactive = prev[bs].ashactive
               /\ \A i \in DOMAIN ash.team : heap[ash.team[i]].hp <= prev[ash.team[i]].hp
        /\ Malformed(prev, rocket, args.rocketact) =>
               /\ heap = stepbattle(prev, last_action, ash, rocket, bs, args.ashact,
                                    NoneAct, args.fa, args.fr).heap
               /\ heap[rocket.elixirs] = prev[rocket.elixirs]
               /\ heap[rocket.team[prev[bs].rocketactive]].alive =>
                      heap[bs].rocketactive = prev[bs].rocketactive
               /\ \A i \in DOMAIN rocket.team :
                      heap[rocket.team[i]].hp <= prev[rocket.team[i]].hp

\* Ash swaps to a fainted creature and heals nothing, while Team Rocket's
\* attack on Ash's active creature goes through
C11_Witness ==
    /\ op = "step" /\ args.ashact = SWAP(0) /\ args.rocketact = ATTACK
    /\ ~prev[ash.team[0]].alive
    /\ prev[bs].ashactive = 2 /\ heap[bs].ashactive = 2
    /\ heap[ash.team[2]].alive
    /\ heap[ash.team[2]].hp < prev[ash.team[2]].hp

\* the candidates of one kind in a generated list
OfKind(acts, kind) == SelectSeq(acts, LAMBDA x : x.kind = kind)

\* the living bench creatures of the call whose type beats the opponent's
Advantaged ==
    {i \in DOMAIN args.agent.team :
        /\ i # args.activeidx
        /\ heap[args.agent.team[i]].alive
        /\ <<heap[args.agent.team[i]].ptype, args.opppokemon.ptype>> \in TYPEADV}

ActiveHpPercent ==
    Fr(heap[args.agent.team[args.activeidx]].hp * 100,
       heap[args.agent.team[args.activeidx]].maxhp)

\* max(0.95 * critical(hp%), 0.75 * low(hp%), 0.5)
HpConfidence(hp_percent) ==
    FrMax(FrMax(FrMul(membership_low(hp_percent, 10, 30), Fr(95, 100)),
                FrMul(membership_low(hp_percent, 20, 50), Fr(75, 100))),
          Fr(5, 10))

\* the opponent's type has the advantage over the active creature's type
Disadvantaged ==
    <<args.opppokemon.ptype, heap[args.agent.team[args.activeidx]].ptype>> \in TYPEADV

\* C13 as stated: with an advantaged living bench creature the swap confidence
\* is max(0.95 * critical(hp%), 0.75 * low(hp%), 0.5) whatever the active
\* creature's type, so never below 0.5 and above 0.5 at hp <= 20%; it is 0
\* without an advantaged bench creature
C13_ConfidenceFromHpAlone ==
    op = "legalactions" =>
        /\ Advantaged # {} =>
               /\ ret.swap_strength = HpConfidence(ActiveHpPercent)
               /\ FrLe(Fr(5, 10), ret.swap_strength)
               /\ FrLe(ActiveHpPercent, FrInt(20)) => FrLt(Fr(5, 10), ret.swap_strength)
        /\ Advantaged = {} => ret.swap_strength = FrInt(0)

\* C13 amended: with an advantaged living bench creature the swap confidence
\* is max(0.95 * critical(hp%), 0.75 * low(hp%), 0.5) when the opponent's type
\* has the advantage over the active creature's type and 0 when it has not; it
\* exceeds 0.5 exactly when the active creature is at that disadvantage and
\* below 30% hp; it is 0 without an advantaged bench creature
C13_ConfidenceNeedsDisadvantage ==
    op = "legalactions" =>
        /\ Advantaged # {} /\ Disadvantaged =>
               ret.swap_strength = HpConfidence(ActiveHpPercent)
        /\ Advantaged # {} /\ ~Disadvantaged => ret.swap_strength = FrInt(0)
        /\ Advantaged = {} => ret.swap_strength = FrInt(0)
        /\ FrLt(Fr(5, 10), ret.swap_strength) <=>
               /\ Advantaged # {}
               /\ Disadvantaged
               /\ FrLt(ActiveHpPercent, FrInt(30))

\* an active creature at 10% hp with an advantaged living bench creature and
\* no type disadvantage of its own: the confidence is 0
C13_Witness ==
    /\ op = "legalactions"
    /\ Advantaged # {} /\ ~Disadvantaged
    /\ ActiveHpPercent = FrInt(10)
    /\ ret.swap_strength = FrInt(0)
    /\ OfKind(ret.acts, "SWAP") = <<>>

\* the tiers the side of the call owns at least one potion of
Owned == {k \in DOMAIN heap[args.agent.elixirs] : heap[args.agent.elixirs][k] > 0}

\* C14: legalactions holds a Heal exactly when the active creature is below
\* its maximum hp, the side owns a potion and the heal confidence exceeds 0.4;
\* then exactly one, of the owned tier with the largest heal amount
C14_OneHealOfLargestTier ==
    op = "legalactions" =>
        LET heals == OfKind(ret.acts, "HEAL")
            activepoke == heap[args.agent.team[args.activeidx]]
        IN  /\ Len(heals) <= 1
            /\ Len(heals) = 1 <=>
                   /\ activepoke.hp < activepoke.maxhp
                   /\ Owned # {}
                   /\ FrLt(Fr(4, 10), ret.heal_strength)
            /\ Len(heals) = 1 =>
                   /\ heals[1].arg.ty = "str"
                   /\ heals[1].arg.s \in Owned
                   /\ \A k \in Owned : ELIXIRS[k] <= ELIXIRS[heals[1].arg.s]

\* a side that owns Small and Medium but no Large is offered Medium
C14_Witness ==
    /\ op = "legalactions"
    /\ Owned = {"Small", "Medium"}
    /\ OfKind(ret.acts, "HEAL") = <<HEAL("Medium")>>

\* the two active creatures at the start of the turn just played
AshActive == ash.team[prev[bs].ashactive]
RocketActive == rocket.team[prev[bs].rocketactive]

\* what the two attacks of the turn compute before any halving
FullOnRocket ==
    computedamage(prev[AshActive], prev[RocketActive], prev[bs].fieldtype, args.fa)
FullOnAsh ==
    computedamage(prev[RocketActive], prev[AshActive], prev[bs].fieldtype, args.fr)

\* the hp the two active creatures lost in the turn
LossOfRocket == prev[RocketActive].hp - heap[RocketActive].hp
LossOfAsh == prev[AshActive].hp - heap[AshActive].hp

\* C15 as stated: a defending target loses half of the rounded damage of the
\* same attack undefended (taken where the target has the hp to lose)
C15_DefendHalvesExactly ==
    op = "round" =>
        /\ args.ashact = ATTACK /\ args.rocketact = DEFEND
           /\ prev[RocketActive].hp >= FullOnRocket
               => 2 * LossOfRocket = FullOnRocket
        /\ args.rocketact = ATTACK /\ args.ashact = DEFEND
           /\ prev[AshActive].hp >= FullOnAsh
               => 2 * LossOfAsh = FullOnAsh

\* C15 amended: a defending target loses half of the rounded damage rounded
\* down, a target that does not defend this turn loses the whole of it,
\* whatever was chosen in the turn before (hp stops at 0)
C15_DefendHalvesRoundedDownThisTurnOnly ==
    op = "round" =>
        /\ args.ashact = ATTACK =>
               LossOfRocket = Min(prev[RocketActive].hp,
                                  IF args.rocketact = DEFEND
                                  THEN FullOnRocket \div 2 ELSE FullOnRocket)
        /\ args.rocketact = ATTACK /\ heap[RocketActive].alive =>
               LossOfAsh = Min(prev[AshActive].hp,
                               IF args.ashact = DEFEND
                               THEN FullOnAsh \div 2 ELSE FullOnAsh)

\* Team Rocket defended an attack in the first turn and is hit by the whole of
\* an odd damage in the second
C15_Witness ==
    /\ op = "round" /\ turn = 2
    /\ ret.ashact = ATTACK /\ ret.rocketact = DEFEND
    /\ args.ashact = ATTACK /\ args.rocketact = ATTACK
    /\ FullOnRocket % 2 = 1
    /\ LossOfRocket = FullOnRocket

\* C16: takedamage(n) and heal(n) with n <= 0 have no effect: hp and alive
\* are as they were before the call
C16_NonPositiveAmountHasNoEffect ==
    op \in {"takedamage", "heal"} /\ args <= 0 => heap = prev

\* the free cells next to the cells of front (4-connected)
FreeNeighbours(grid, front) ==
    {n \in Cells : /\ grid[n[2]][n[1]] = 0
                   /\ \E c \in front : Abs(c[1] - n[1]) + Abs(c[2] - n[2]) = 1}

\* breadth-first search: the steps from the cells of front, d steps from the
\* start, to goal over free cells, or -1 when no route leads there
RECURSIVE BFS(_, _, _, _, _)
BFS(grid, front, seen, goal, d) ==
    IF goal \in front THEN d
    ELSE IF front = {} THEN -1
    ELSE BFS(grid, FreeNeighbours(grid, front) \ seen,
             seen \cup FreeNeighbours(grid, front), goal, d + 1)

ShortestLength == BFS(heap.grid, {args.start}, {args.start}, args.goal, 0)

FreeBorder ==
    \A c \in Cells :
        (c[1] \in {0, GridW - 1} \/ c[2] \in {0, GridH - 1}) => heap.grid[c[2]][c[1]] = 0

\* C17: on a grid with a free border and a reachable goal astar returns a
\* path from start to goal whose number of steps is the breadth-first
\* shortest-path length, whichever cell of least f each pass takes
C17_PathIsShortest ==
    op = "return" /\ FreeBorder /\ ShortestLength >= 0 =>
        /\ Len(ret) - 1 = ShortestLength
        /\ ret[1] = args.start /\ ret[Len(ret)] = args.goal

\* a path that goes round an obstacle: more steps than the Manhattan distance
C17_Witness ==
    /\ op = "return" /\ FreeBorder
    /\ ShortestLength > manhattan(args.start, args.goal)
    /\ Len(ret) - 1 = ShortestLength

\* C18: astar terminates (its loop makes at most one pass per cell and every
\* dictionary read falls back on a default) and returns the empty list
\* exactly when start differs from goal and no route of free cells leads from
\* start to goal, a blocked or enclosed goal included
C18_EmptyExactlyWhenNoRoute ==
    /\ turn <= GridW * GridH
    /\ op = "return" =>
           (ret = <<>> <=> (args.start # args.goal /\ ShortestLength = -1))

\* a free goal cut off by obstacles: the search runs dry and returns []
C18_Witness ==
    /\ op = "return" /\ ret = <<>>
    /\ heap.grid[args.goal[2]][args.goal[1]] = 0
    /\ heap.openset = {} /\ turn > 0

\* one call of update, from the state before it to the state after it
C19_Update ==
    LET ashalive == \E i \in DOMAIN ash.team : heap[ash.team[i]].alive
        rocketalive == \E i \in DOMAIN rocket.team : heap[rocket.team[i]].alive
        ashhp == heap[ash.team[0]].hp + heap[ash.team[1]].hp + heap[ash.team[2]].hp
        rockethp == heap[rocket.team[0]].hp + heap[rocket.team[1]].hp
                    + heap[rocket.team[2]].hp
        timeup == env'.now - phase3'.phase_start_time > PHASE3_TIME
    IN  /\ ~ashalive =>
               ret' = [should_transition |-> TRUE, winner |-> "Team Rocket"]
        /\ ashalive /\ ~rocketalive =>
               ret' = [should_transition |-> TRUE, winner |-> "Ash"]
        /\ ashalive /\ rocketalive /\ ~env'.waiting_for_audio /\ timeup =>
               ret' = [should_transition |-> TRUE,
                       winner |-> IF ashhp > rockethp THEN "Ash"
                                  ELSE IF rockethp > ashhp THEN "Team Rocket"
                                  ELSE "Draw"]
        /\ ret'.should_transition =>
               /\ ~ashalive \/ ~rocketalive \/ timeup
               /\ heap' = heap /\ last_action' = last_action /\ turn' = turn

\* C19: a call of update made when a roster has no living creature ends the
\* battle with the other side as winner; otherwise a call made when the time
\* of the phase is up ends it with the side of the greater total hp as winner
\* and "Draw" on equal totals; no other call ends it, and the call that ends
\* it decides nothing and plays no turn
C19_EndsOnDefeatOrTimeUp == [][C19_Update]_vars

\* the time ran out on a battle with both sides living and equal totals
C19_Witness ==
    /\ op = "update" /\ ret.should_transition /\ ret.winner = "Draw"
    /\ anyalive(heap, ash) /\ anyalive(heap, rocket)
    /\ env.now - phase3.phase_start_time > PHASE3_TIME

\* round(base * T * F) for an attack at random factor 1.0
Expected(attacker, defender, fieldtype) ==
    LET base == IF attacker.atk - (defender.dfn \div 2) > 5
                THEN attacker.atk - (defender.dfn \div 2) ELSE 5
        T == IF <<attacker.ptype, defender.ptype>> \in TYPEADV THEN 13 ELSE 10
        F == IF attacker.ptype = fieldtype THEN 12 ELSE 10
        q == (base * T * F) \div 100
        r == (base * T * F) % 100
    IN  IF r < 50 THEN q
        ELSE IF r > 50 THEN q + 1
        ELSE IF q % 2 = 0 THEN q ELSE q + 1

\* the two creatures have the same stats and the attacker's type has the
\* advantage over the defender's
AdvantagedTwin ==
    /\ heap[1].atk = heap[2].atk /\ heap[1].dfn = heap[2].dfn
    /\ <<heap[1].ptype, heap[2].ptype>> \in TYPEADV

InnerRing ==
    {c \in Cells : /\ writable(c[1], c[2])
                   /\ (c[1] \in {1, GridW - 2} \/ c[2] \in {1, GridH - 2})}

\* C21: after obstacle generation every cell of the outer border and every
\* cell of the ring next to it is free of obstacles
C21_BorderAndInnerRingFree ==
    op = "genobstacles" =>
        \A c \in Cells :
            (~writable(c[1], c[2]) \/ c \in InnerRing) => heap.grid[c[2]][c[1]] = 0

\* the action is a Swap that apply carries out, to another creature
ValidSwap(agent, act, activeidx) ==
    /\ act.kind = "SWAP" /\ act.arg.ty = "int"
    /\ act.arg.i \in DOMAIN agent.team
    /\ act.arg.i # activeidx
    /\ prev[agent.team[act.arg.i]].alive

\* the action is a Heal that apply carries out
ValidHeal(agent, act) ==
    /\ act.kind = "HEAL" /\ act.arg.ty = "str"
    /\ DictGet(prev[agent.elixirs], act.arg.s) > 0

\* hp of creature id after an undefended attack by attacker at factor rnd on
\* a creature that starts the exchange with hp
HpAfterHit(attacker, id, hp, rnd) ==
    IF hp - computedamage(prev[attacker], prev[id], prev[bs].fieldtype, rnd) > 0
    THEN hp - computedamage(prev[attacker], prev[id], prev[bs].fieldtype, rnd)
    ELSE 0

\* hp after a potion of amt on a living creature
HpAfterPotion(id, amt) ==
    IF prev[id].hp + amt < prev[id].maxhp THEN prev[id].hp + amt ELSE prev[id].maxhp

\* C22: swaps and heals of both sides take effect before any attack: an attack
\* hits the creature swapped in this turn and leaves the swapped-out one as it
\* was, and a healer is healed before the damage of the turn is subtracted
C22_SwapAndHealBeforeAttacks ==
    op = "step" /\ prev[AshActive].alive /\ prev[RocketActive].alive =>
        /\ args.ashact = ATTACK /\ ValidSwap(rocket, args.rocketact, prev[bs].rocketactive) =>
               /\ heap[RocketActive].hp = prev[RocketActive].hp
               /\ heap[rocket.team[args.rocketact.arg.i]].hp =
                      HpAfterHit(AshActive, rocket.team[args.rocketact.arg.i],
                                 prev[rocket.team[args.rocketact.arg.i]].hp, args.fa)
        /\ args.rocketact = ATTACK /\ ValidSwap(ash, args.ashact, prev[bs].ashactive) =>
               /\ heap[AshActive].hp = prev[AshActive].hp
               /\ heap[ash.team[args.ashact.arg.i]].hp =
                      HpAfterHit(RocketActive, ash.team[args.ashact.arg.i],
                                 prev[ash.team[args.ashact.arg.i]].hp, args.fr)
        /\ args.ashact = ATTACK /\ ValidHeal(rocket, args.rocketact) =>
               heap[RocketActive].hp =
                   HpAfterHit(AshActive, RocketActive,
                              HpAfterPotion(RocketActive, ELIXIRS[args.rocketact.arg.s]),
                              args.fa)
        /\ args.rocketact = ATTACK /\ ValidHeal(ash, args.ashact) =>
               heap[AshActive].hp =
                   HpAfterHit(RocketActive, AshActive,
                              HpAfterPotion(AshActive, ELIXIRS[args.ashact.arg.s]),
                              args.fr)

\* Ash's last creature at 8 hp drinks a potion and survives a hit of more than
\* 8 that would have made it faint before the potion
C22_Witness ==
    /\ op = "step" /\ args.rocketact = ATTACK /\ ValidHeal(ash, args.ashact)
    /\ prev[AshActive].hp = 8
    /\ computedamage(prev[RocketActive], prev[AshActive], prev[bs].fieldtype, args.fr) > 8
    /\ heap[AshActive].alive

\* C23: a non-empty path returned by astar starts at start, ends at goal,
\* moves between 4-adjacent cells of the grid and holds no blocked cell after
\* the start cell; for start = goal it is the one-cell path
C23_PathIsWalkable ==
    op = "return" /\ ret # <<>> =>
        /\ ret[1] = args.start
        /\ ret[Len(ret)] = args.goal
        /\ \A k \in 1..(Len(ret) - 1) :
               Abs(ret[k][1] - ret[k + 1][1]) + Abs(ret[k][2] - ret[k + 1][2]) = 1
        /\ \A k \in 2..Len(ret) :
               /\ ret[k] \in Cells
               /\ heap.grid[ret[k][2]][ret[k][1]] = 0
        /\ args.start = args.goal => ret = <<args.start>>

\* a path of four steps or more on a grid with obstacles
C23_Witness ==
    /\ op = "return" /\ Len(ret) >= 5
    /\ \E c \in Cells : heap.grid[c[2]][c[1]] = 1

\* C24: when astar returns an empty path for the current target, the update
\* leaves the trainer's position, fuel and caught list (and its target and
\* path) as they were and ends normally; the trainer is then in the very
\* state in which movetrainer calls astar, so the next update asks again
C24_EmptyPathStaysInPlace ==
    op = "asked" /\ ret = <<>> =>
        /\ heap.agent.position = prev.agent.position
        /\ heap.agent.fuel = prev.agent.fuel
        /\ heap.pokemon_caught = prev.pokemon_caught
        /\ heap.current_target = prev.current_target
        /\ heap.agent = prev.agent
        /\ ~returnsearly(heap)
        /\ current_grid(heap.agent) # heap.pokemon_locations[heap.current_target]
        /\ needspath(heap.agent)

\* an update after a first catch in which astar found no path
C24_Witness ==
    /\ op = "asked"
    /\ ret = <<>>
    /\ Len(heap.pokemon_caught) >= 1
    /\ heap.agent.position # <<1 * Resolution, (GridH - 2) * Resolution>>

\* C30: in the catching phase a trainer's fuel never goes below 0 and
\* fuel + FUELPERCATCH * (creatures caught) stays the starting fuel; at most 3
\* creatures are caught, each once and in roster order; a catch happens only
\* in an update that begins with the trainer's cell (its rounded position)
\* equal to the target's cell, and it takes exactly FUELPERCATCH
C30_FuelAndCatches ==
    /\ heap.agent.fuel >= 0
    /\ heap.agent.fuel + FUELPERCATCH * Len(heap.pokemon_caught) = STARTFUEL
    /\ Len(heap.pokemon_caught) <= 3
    /\ \A i \in 1..Len(heap.pokemon_caught) : heap.pokemon_caught[i] = i - 1
    /\ heap.pokemon_caught # prev.pokemon_caught =>
           /\ op = "movetrainer"
           /\ current_grid(prev.agent) = prev.pokemon_locations[prev.current_target]
           /\ heap.pokemon_caught = Append(prev.pokemon_caught, prev.current_target)
           /\ heap.agent.fuel = prev.agent.fuel - FUELPERCATCH
           /\ heap.agent.position = prev.agent.position

\* the third catch, made part of the way into the target's cell
C30_Witness ==
    /\ op = "movetrainer"
    /\ Len(heap.pokemon_caught) = 3
    /\ Len(prev.pokemon_caught) = 2
    /\ heap.agent.fuel = 0
    /\ heap.agent.position[1] % Resolution # 0

\* the damage of the base floor 5 under the multipliers of the call
FloorDamage(attacker, defender, fieldtype, rnd) ==
    RoundHalfEven(5 * (IF <<attacker.ptype, defender.ptype>> \in TYPEADV THEN TYPEADVMULT ELSE 10)
                    * (IF attacker.ptype = fieldtype THEN FIELDBOOST ELSE 10) * rnd,
                  10 * 10 * 100)

\* C25: with the random factor held fixed, computedamage does not decrease
\* when the attacker's atk grows, does not increase when the defender's def
\* grows, and is never below the damage of the base floor of 5
C25_MonotoneAboveFloor ==
    op = "computedamage" =>
        /\ \A atk \in heap[1].atk..MaxStat :
               computedamage([heap[1] EXCEPT !.atk = atk], heap[2], args.fieldtype, args.rnd) >= ret.dmg
        /\ \A dfn \in heap[2].dfn..MaxStat :
               computedamage(heap[1], [heap[2] EXCEPT !.dfn = dfn], args.fieldtype, args.rnd) <= ret.dmg
        /\ ret.dmg >= FloorDamage(heap[1], heap[2], args.fieldtype, args.rnd)

\* a call above the floor that a stronger attacker tops and a sturdier
\* defender lowers down to the floor
C25_Witness ==
    /\ op = "computedamage"
    /\ ret.dmg > FloorDamage(heap[1], heap[2], args.fieldtype, args.rnd)
    /\ computedamage(heap[1], [heap[2] EXCEPT !.dfn = MaxStat], args.fieldtype, args.rnd)
           = FloorDamage(heap[1], heap[2], args.fieldtype, args.rnd)
    /\ computedamage([heap[1] EXCEPT !.atk = MaxStat], heap[2], args.fieldtype, args.rnd) > ret.dmg
    /\ computedamage(heap[1], [heap[2] EXCEPT !.dfn = MaxStat], args.fieldtype, args.rnd) < ret.dmg

\* the creatures of agent that the turn made faint
FaintedOf(agent) ==
    {i \in DOMAIN agent.team : prev[agent.team[i]].alive /\ ~heap[agent.team[i]].alive}

PotionsFollow(agent, act) ==
    \A k \in DOMAIN prev[agent.elixirs] :
        /\ heap[agent.elixirs][k] >= 0
        /\ heap[agent.elixirs][k] <= prev[agent.elixirs][k]
        /\ heap[agent.elixirs][k] =
               IF ValidHeal(agent, act) /\ act.arg.s = k
               THEN prev[agent.elixirs][k] - 1
               ELSE prev[agent.elixirs][k]

\* C27: during a battle every potion count of every side is >= 0 and never
\* increases; an applied Heal takes exactly one potion of the chosen tier
\* from the healing side and changes no other count, whether or not the heal
\* restores any hp
C27_PotionsOnlySpent ==
    /\ \A agent \in {ash, rocket} : \A k \in DOMAIN heap[agent.elixirs] : heap[agent.elixirs][k] >= 0
    /\ op = "step" =>
           /\ PotionsFollow(ash, args.ashact)
           /\ PotionsFollow(rocket, args.rocketact)
           /\ DOMAIN heap[ash.elixirs] = DOMAIN prev[ash.elixirs]
           /\ DOMAIN heap[rocket.elixirs] = DOMAIN prev[rocket.elixirs]

\* Team Rocket heals a creature at full hp while Ash defends: a potion is
\* gone and no hp is restored
C27_Witness ==
    /\ op = "step" /\ ValidHeal(rocket, args.rocketact) /\ args.ashact = DEFEND
    /\ prev[RocketActive].hp = prev[RocketActive].maxhp
    /\ heap[RocketActive].hp = prev[RocketActive].hp
    /\ heap[rocket.elixirs][args.rocketact.arg.s] = prev[rocket.elixirs][args.rocketact.arg.s] - 1
    /\ heap[ash.elixirs] = prev[ash.elixirs]

\* the order of the phases of a match
Follows(s, t) ==
    <<s, t>> \in {<<"INTRO", "CATCH">>, <<"CATCH", "ELIXIR">>, <<"ELIXIR", "BATTLE">>,
                  <<"BATTLE", "GAMEOVER">>}

\* C28: the game state only advances INTRO -> CATCH -> ELIXIR -> BATTLE ->
\* GAMEOVER one step at a time, by an update, and returns to INTRO only by Play
\* Again in GAMEOVER, which starts a new game; Pause stores the current state
\* and is ignored while paused, Resume returns to exactly the stored state;
\* while the state is PAUSED no update runs: no roster, catch, winner or
\* timer start changes, only the clock and the voice clip go on
C28_StateOrderAndPause ==
    [][/\ heap'.state # heap.state =>
              \/ Follows(heap.state, heap'.state) /\ gameupdate
              \/ /\ heap.state = "GAMEOVER" /\ heap'.state = "INTRO"
                 /\ heap' = [newgame(heap) EXCEPT !.state = "INTRO", !.elapsed = 0]
              \/ /\ heap.state # "PAUSED" /\ heap'.state = "PAUSED"
                 /\ heap' = [heap EXCEPT !.state = "PAUSED", !.paused_from_state = heap.state]
              \/ /\ heap.state = "PAUSED" /\ heap'.state = heap.paused_from_state
                 /\ heap' = [heap EXCEPT !.state = heap.paused_from_state]
       /\ heap'.paused_from_state # heap.paused_from_state =>
              heap.state # "PAUSED" /\ heap'.state = "PAUSED"
       /\ heap.state = "PAUSED" =>
              /\ ~gameupdate
              /\ heap'.alive = heap.alive
              /\ heap'.pokemon_caught = heap.pokemon_caught
              /\ heap'.winner = heap.winner
              /\ heap'.wait <= heap.wait
              /\ heap.elapsed < 0 => heap'.elapsed = heap.elapsed
              /\ env'.waiting_for_audio = env.waiting_for_audio
      ]_vars

\* a second match is being played after a first one that was paused in the
\* battle and again on the game-over screen
C28_Witness ==
    /\ heap.state = "PAUSED"
    /\ heap.paused_from_state = "BATTLE"
    /\ heap.alive["Ash"] = 2 /\ heap.alive["Team Rocket"] = 1
    /\ heap.elapsed > 0

\* C29: provided the clock advances, voice clips finish, a paused game is
\* resumed and the loop keeps calling update, every match reaches GAMEOVER
\* with the winner "Ash", "Team Rocket" or "Draw" (unless the player exits);
\* an update past the audio gate ends the catching phase once its budget has
\* elapsed, the elixir phase once its budget is exceeded and the battle once
\* its budget is exceeded, whether or not a creature has fainted
C29_EveryMatchEnds ==
    /\ [][gameupdate /\ ~audiowait(env) =>
              /\ heap.state = "CATCH" /\ heap.elapsed >= PHASE1_TIME => heap'.state = "ELIXIR"
              /\ heap.state = "ELIXIR" /\ heap.elapsed > PHASE2_TIME => heap'.state = "BATTLE"
              /\ heap.state = "BATTLE" /\ heap.elapsed > PHASE3_TIME =>
                     heap'.state = "GAMEOVER" /\ heap'.winner \in {"Ash", "Team Rocket", "Draw"}
         ]_vars
    /\ [](heap.state = "GAMEOVER" => heap.winner \in {"Ash", "Team Rocket", "Draw"})
    /\ (heap.state = "INTRO") ~>
           ((heap.state = "GAMEOVER" /\ heap.winner \in {"Ash", "Team Rocket", "Draw"})
            \/ ~heap.running)

\* a battle ended by its time budget with all six creatures alive
C29_Witness ==
    /\ heap.state = "GAMEOVER"
    /\ heap.winner = "Draw"
    /\ heap.alive["Ash"] = 3 /\ heap.alive["Team Rocket"] = 3
    /\ heap.running

====
